---- MODULE Spec2Model ----
(***************************************************************************)
(* A model of the client-side data-acquisition layer of the price-cache    *)
(* dashboard:                                                              *)
(*   - the stream client (hooks/useWebSocket.ts),                          *)
(*   - the metrics history buffer fed by it (pages/Benchmark.tsx,          *)
(*     Observability),                                                     *)
(*   - the REST fetch client with its fallback synthesizer (lib/api.ts),   *)
(*   - the polling hooks built on the fetch client (hooks/usePrice.ts),    *)
(*   - the latency statistics (lib/api.ts, calculateStats), the benchmark   *)
(*     page (pages/Benchmark.tsx) and the export functions (lib/export).    *)
(* Each part has its own specification over the shared variables; the      *)
(* variables of the other parts keep their initial values.                 *)
(***************************************************************************)
EXTENDS Integers, Sequences, FiniteSets, TLC

(***************************************************************************)
(* Bounds of the model (not program constants).                            *)
(***************************************************************************)
\* channels (WebSocket objects) one hook instance may create
MaxChannels == 7
\* actions of the caller after the mount: calls of disconnect() (the returned
\* function, or the cleanup at unmount) and re-runs of the effect
MaxCallerActs == 2
\* snapshots appended to the metrics history
MaxAppends == 150
\* calls of the fetch client
MaxCalls == 2
\* seconds the clock may advance
MaxSeconds == 4
\* direct calls of the fallback synthesizer
MaxSynthCalls == 4
\* seconds the clock may advance while a polling hook is observed
MaxPollSeconds == 5
\* calls of fetchData by a polling hook
MaxRequests == 3
\* samples in a latency sequence
MaxSamples == 5
\* channels created while payloads and messages are observed
MaxIoChannels == 4
\* channels created before the attempt counter is observed
MaxCounterChannels == 8
\* stats messages appended by the page fed by the stream client
MaxObsAppends == 2
\* records handed to an export function
MaxRecords == 2
\* exports of the same history, and milliseconds that pass meanwhile
MaxExports == 2
MaxExportMillis == 2

(***************************************************************************)
(* Program constants of the stream client.                                 *)
(***************************************************************************)
\* useWebSocket.ts:19  reconnectInterval = 3000
reconnectInterval == 3000
\* useWebSocket.ts:20  maxReconnectAttempts = 5
maxReconnectAttempts == 5

\* Benchmark.tsx:422  prev.slice(-99)
HistoryKeep == 99

\* api.ts:78  const cacheExpiry = 2000
cacheExpiry == 2000
\* api.ts:101  AbortSignal.timeout(5000)
fetchTimeoutMs == 5000
\* usePrice.ts:7, 42  interval: number = 2000
pollInterval == 2000

NoError == "null"
ErrConnection == "WebSocket connection error"
ErrMaxAttempts == "Max reconnection attempts reached"
ErrCreate == "SyntaxError"

\* readyState of a WebSocket, with the close requested by the client told
\* apart by what the channel was doing when close() was called:
\*   "aborting": close() while CONNECTING (the browser fails the connection:
\*               an error event, then the close event),
\*   "closing" : close() while OPEN (the close event alone).
ChannelStates == {"connecting", "open", "aborting", "closing", "closed"}

VARIABLES
    \* ---- stream client (useWebSocket) ----
    urlOk,               \* whether new WebSocket(wsUrl) succeeds for the hook's url
    mounted,             \* the effect has run connect() once
    chan,                \* the WebSocket objects created so far: sequence of readyStates
    wsRef,               \* wsRef.current: 0 (null) or an index of chan
    reconnectAttempts,   \* reconnectAttemptsRef.current
    reconnectTimeoutRef, \* reconnectTimeoutRef.current: 0 (null) or a timer id
    timers,              \* pending setTimeout timers, in the order they were set
    isConnected,         \* React state isConnected
    lastError,           \* React state lastError
    \* ---- observations of the stream client (history) ----
    timersSet,           \* number of reconnect timers set so far; a timer's id is its rank
    lastDelay,           \* backoffMs of the reconnect timer set last (0: none yet)
    calls,               \* the caller's callbacks invoked by the last step, in order
    onCloseCalls,        \* per channel: calls of the caller's onClose for its close event
    everOpened,          \* some channel was established
    disconnected,        \* disconnect() was called and the caller has not connected since
    exhausted,           \* a close found the attempts used up, and the caller has not acted since
    sinceOpen,           \* a channel was established and no reconnect timer was set since
    callerActs,          \* disconnect() calls and effect re-runs so far
    io,                  \* what the last step did with a payload or an inbound message
    survivors,           \* ids of the timers still pending when disconnect() last returned
    delivered,           \* the kind of message the last step handed to onMessage, or "none"
    objects,             \* the objects assigned to fallbackDataCache so far, as they are now
    held,                \* the fallback mappings returned so far: object and content then
    \* ---- metrics history (Observability) ----
    metricsHistory,      \* React state metricsHistory: sequence of snapshots
    streamStats,         \* React state streamStats: the payload shown last
    appended,            \* snapshots appended so far (history)
    \* ---- fetch client (lib/api.ts) ----
    now,                 \* Date.now(), in ms since the module was loaded
    fallbackDataCache,   \* module variable fallbackDataCache: symbol -> quote
    lastFallbackUpdate,  \* module variable lastFallbackUpdate
    generations,         \* fallback mappings generated so far (history)
    call,                \* the call in progress or completed last
    result,              \* how the promise of that call settled
    ncalls,              \* calls started so far
    \* ---- polling hooks (usePrice, usePrices) ----
    hook,                \* the hook observed
    pollSymbol,          \* usePrice: the symbol prop
    pollPc,              \* "init", "mounted" (the effect has run) or "unmounted"
    nextTick,            \* when the setInterval timer of the effect fires next
    intervals,           \* the interval timers set and not cleared: the loops
    epoch,               \* runs of the effect so far: the polling loop in force
    requests,            \* the calls of fetchData so far, in the order they started
    price,               \* React state price / prices, with the request that wrote it
    pollError,           \* React state error
    loading,             \* React state loading
    arrived,             \* the request whose call resolved last (history)
    \* ---- calculateStats ----
    latencies,           \* the argument of calculateStats, in hundredths of a ms
    summary,             \* how the call ended and the object it returned
    \* ---- benchmark page (Benchmark) ----
    benchPc,             \* "idle", or "running" while handleRunBenchmark is in its loop
    newResults,          \* the local array newResults of handleRunBenchmark
    results,             \* React state results
    exportData,          \* the rows handed to exportBenchmarkResults last
    \* ---- generateFallbackPriceData(symbol) ----
    synthSymbol,         \* the argument
    random,              \* what the calls of Math.random() return, in thousandths
    synthQuote,          \* the quote returned, or NoQuote before the call
    \* ---- export functions (hooks/usePrice.ts) ----
    metrics,             \* the argument of metricsToCSV and metricsToJSON
    benchResults,        \* the argument results of benchmarkToCSV
    exported,            \* the function called and what it returned
    \* ---- exportMetricsHistory called again and again (Observability) ----
    exportNow,           \* the clock new Date() reads, in milliseconds
    outputs,             \* the contents downloaded so far, in order
    \* ---- the Home page (pages/Home.tsx) ----
    homeStats,           \* stats of useStats: the statistics the page shows
    isRealApi,           \* the value given to setIsRealApi: TRUE reads "API LIVE"
    \* ---- components/CircuitBreakerStatus.tsx ----
    cbMetrics,           \* metrics: the status document the component shows
    breaker,             \* the state of the breaker in the upstream service
    reported,            \* the states the status payloads received so far held
    cbFetch,             \* the fetchMetrics call of the interval: "idle" or "pending"
    cbReset              \* resetCircuitBreaker: "idle", "pending" (POST) or "refetch"

streamVars == <<urlOk, mounted, chan, wsRef, reconnectAttempts, reconnectTimeoutRef,
                timers, isConnected, lastError, timersSet, lastDelay, calls, onCloseCalls,
                everOpened, disconnected, exhausted, sinceOpen, callerActs>>

bufferVars == <<metricsHistory, streamStats, appended>>

fetchVars == <<now, fallbackDataCache, lastFallbackUpdate, generations, call, result,
               ncalls>>

pollVars == <<hook, pollSymbol, pollPc, nextTick, intervals, epoch, requests, price,
              pollError, loading, arrived>>

benchVars == <<benchPc, newResults, results, exportData>>

quoteVars == <<synthSymbol, random, synthQuote>>

statsVars == <<latencies, summary>>

exportVars == <<metrics, benchResults, exported>>

repeatVars == <<exportNow, outputs>>

homeVars == <<homeStats, isRealApi>>

breakerVars == <<cbMetrics, breaker, reported, cbFetch, cbReset>>

utilVars == <<statsVars, benchVars, quoteVars, exportVars, repeatVars, homeVars, breakerVars>>

heapVars == <<objects, held>>

vars == <<streamVars, io, survivors, delivered, heapVars, bufferVars, fetchVars, pollVars, utilVars>>

(***************************************************************************)
(* Helpers                                                                 *)
(***************************************************************************)
RECURSIVE Pow2(_)
Pow2(n) == IF n = 0 THEN 1 ELSE 2 * Pow2(n - 1)

\* the sequence s without its element at index i
RemoveAt(s, i) == SubSeq(s, 1, i - 1) \o SubSeq(s, i + 1, Len(s))

\* the sequence of timers without the timer whose id is id (clearTimeout(id))
RECURSIVE ClearTimeout(_, _)
ClearTimeout(ts, id) ==
    IF ts = <<>> THEN <<>>
    ELSE IF Head(ts).id = id THEN Tail(ts)
    ELSE <<Head(ts)>> \o ClearTimeout(Tail(ts), id)

(***************************************************************************)
(* useWebSocket: the pieces of connect(), disconnect() and the handlers.   *)
(***************************************************************************)
\* ws.onclose: const backoffMs = reconnectInterval * Math.pow(2, attempts)
BackoffLinear(attempt) == reconnectInterval * (attempt + 1)
BackoffMs(attempt) == reconnectInterval * Pow2(attempt)

ShouldReconnectInclusive(attempts) == attempts <= maxReconnectAttempts

\* ws.onclose: if (reconnectAttemptsRef.current < maxReconnectAttempts)
ShouldReconnect(attempts) == attempts < maxReconnectAttempts

OnErrorCallsBack(cs) == Append(cs, "onError")

\* ws.onerror: the callbacks of the caller it invokes, added to cs: none
\* ("Don't call onError callback")
OnErrorCalls(cs) == cs

\* ws.onclose: setIsConnected(false)
OnCloseKeepsConnected(cur) == cur
OnCloseIsConnected(cur) == FALSE

\* ws.onopen: reconnectAttemptsRef.current = 0
OnOpenAttempts(cur) == 0

\* connect(): new WebSocket(wsUrl) and wsRef.current = ws, or the catch branch
ConnectChan(ch) == IF urlOk THEN Append(ch, "connecting") ELSE ch
ConnectRef(ch, ref) == IF urlOk THEN Len(ch) + 1 ELSE ref
ConnectErr(err) == IF urlOk THEN err ELSE ErrCreate
ConnectCalls(cs) == IF urlOk THEN Append(cs, 0) ELSE cs

\* WebSocket.close(): a no-op on a channel already closing or closed
CloseChannel(ch, c) ==
    IF c = 0 THEN ch
    ELSE IF ch[c] = "connecting" THEN [ch EXCEPT ![c] = "aborting"]
    ELSE IF ch[c] = "open" THEN [ch EXCEPT ![c] = "closing"]
    ELSE ch

\* disconnect(): if (reconnectTimeoutRef.current) clearTimeout(...)
DisconnectTimers(ts, ref) == IF ref # 0 THEN ClearTimeout(ts, ref) ELSE ts

\* setTimeout: a timer set earlier with a delay no longer than this one's fires
\* first; otherwise the order depends on when the two were set
MayFire(i) ==
    \A j \in 1..(i - 1) : timers[j].delay > timers[i].delay

\* What a step did with a payload of the caller or with an inbound message:
\*   "sent"      : send(data) handed the payload to channel chan,
\*   "refused"   : send(data) only logged the warning,
\*   "wellFormed": channel chan received a message that JSON.parse accepts,
\*   "malformed" : channel chan received a message that JSON.parse rejects;
\* afterDrop: the step before was a malformed message on the same channel.
NoIo == [kind |-> "none", chan |-> 0, afterDrop |-> FALSE]

\* send: if (wsRef.current && wsRef.current.readyState === WebSocket.OPEN)
MaySendAnyState(ch, ref) == ref # 0
MaySend(ch, ref) == ref # 0 /\ ch[ref] = "open"

\* ws.onmessage: try { const data = JSON.parse(event.data); onMessage(data); }
\*               catch (e) { console.error(...) }
OnMessageAlways(parses) == <<"onMessage">>
OnMessageCalls(parses) == IF parses THEN <<"onMessage">> ELSE <<>>

InitStream ==
    /\ urlOk \in BOOLEAN
    /\ mounted = FALSE
    /\ chan = <<>>
    /\ wsRef = 0
    /\ reconnectAttempts = 0
    /\ reconnectTimeoutRef = 0
    /\ timers = <<>>
    /\ isConnected = FALSE
    /\ lastError = NoError
    /\ timersSet = 0
    /\ lastDelay = 0
    /\ calls = <<>>
    /\ onCloseCalls = <<>>
    /\ everOpened = FALSE
    /\ disconnected = FALSE
    /\ exhausted = FALSE
    /\ sinceOpen = FALSE
    /\ callerActs = 0
    /\ io = NoIo

\* useEffect(() => { connect(); ... }): the first run of the effect
EffectMount ==
    /\ ~mounted
    /\ mounted' = TRUE
    /\ chan' = ConnectChan(chan)
    /\ wsRef' = ConnectRef(chan, wsRef)
    /\ lastError' = ConnectErr(lastError)
    /\ onCloseCalls' = ConnectCalls(onCloseCalls)
    /\ calls' = <<>>
    /\ UNCHANGED <<urlOk, reconnectAttempts, reconnectTimeoutRef, timers, isConnected,
                   timersSet, lastDelay, everOpened, disconnected, exhausted, sinceOpen,
                   callerActs>>

\* disconnect(), called by the caller through the returned function or by the
\* effect's cleanup at unmount
Disconnect ==
    /\ mounted
    /\ callerActs < MaxCallerActs
    /\ callerActs' = callerActs + 1
    /\ timers' = DisconnectTimers(timers, reconnectTimeoutRef)
    /\ chan' = CloseChannel(chan, wsRef)
    /\ wsRef' = 0
    /\ isConnected' = FALSE
    /\ disconnected' = TRUE
    /\ exhausted' = FALSE
    /\ calls' = <<>>
    /\ UNCHANGED <<urlOk, mounted, reconnectAttempts, reconnectTimeoutRef, lastError,
                   timersSet, lastDelay, onCloseCalls, everOpened, sinceOpen>>

\* a re-run of the effect (connect changed identity): the cleanup's disconnect()
\* followed by connect()
EffectRerun ==
    /\ mounted
    /\ callerActs < MaxCallerActs
    /\ callerActs' = callerActs + 1
    /\ timers' = DisconnectTimers(timers, reconnectTimeoutRef)
    /\ LET closed == CloseChannel(chan, wsRef) IN
         /\ chan' = ConnectChan(closed)
         /\ wsRef' = ConnectRef(closed, 0)
    /\ isConnected' = FALSE
    /\ lastError' = ConnectErr(lastError)
    /\ onCloseCalls' = ConnectCalls(onCloseCalls)
    /\ disconnected' = FALSE
    /\ exhausted' = FALSE
    /\ calls' = <<>>
    /\ UNCHANGED <<urlOk, mounted, reconnectAttempts, reconnectTimeoutRef, timersSet,
                   lastDelay, everOpened, sinceOpen>>

\* ws.onopen
ChannelOpen(c) ==
    /\ chan[c] = "connecting"
    /\ chan' = [chan EXCEPT ![c] = "open"]
    /\ isConnected' = TRUE
    /\ lastError' = NoError
    /\ reconnectAttempts' = OnOpenAttempts(reconnectAttempts)
    /\ calls' = <<"onOpen">>
    /\ everOpened' = TRUE
    /\ sinceOpen' = TRUE
    /\ UNCHANGED <<urlOk, mounted, wsRef, reconnectTimeoutRef, timers, timersSet,
                   lastDelay, onCloseCalls, disconnected, exhausted, callerActs>>

\* ws.onclose, run after ws.onerror when the close is a failure (err):
\* the error event and the close event are fired by one browser task
OnClose(c, err) ==
    /\ chan' = [chan EXCEPT ![c] = "closed"]
    /\ isConnected' = OnCloseIsConnected(isConnected)
    /\ onCloseCalls' = [onCloseCalls EXCEPT ![c] = @ + 1]
    /\ calls' = Append(IF err THEN OnErrorCalls(<<>>) ELSE <<>>, "onClose")
    /\ IF ShouldReconnect(reconnectAttempts)
       THEN /\ timers' = Append(timers, [id |-> timersSet + 1,
                                         delay |-> BackoffMs(reconnectAttempts)])
            /\ timersSet' = timersSet + 1
            /\ lastDelay' = BackoffMs(reconnectAttempts)
            /\ reconnectTimeoutRef' = timersSet + 1
            /\ lastError' = IF err THEN ErrConnection ELSE lastError
            /\ sinceOpen' = FALSE
            /\ UNCHANGED exhausted
       ELSE /\ lastError' = ErrMaxAttempts
            /\ exhausted' = TRUE
            /\ UNCHANGED <<timers, timersSet, lastDelay, reconnectTimeoutRef, sinceOpen>>
    /\ UNCHANGED <<urlOk, mounted, wsRef, reconnectAttempts, everOpened, disconnected,
                   callerActs>>

\* the channel is closed cleanly (by the remote side, or after close()): the
\* close event alone
ChannelClose(c) ==
    /\ chan[c] \in {"open", "closing"}
    /\ OnClose(c, FALSE)

\* the connection fails (it could not be established, a transport error, or
\* close() before it was established): the error event, then the close event
ChannelError(c) ==
    /\ chan[c] \in {"connecting", "open", "aborting"}
    /\ OnClose(c, TRUE)

\* the reconnect timer set by ws.onclose fires
TimerFire(i) ==
    /\ MayFire(i)
    /\ timers' = RemoveAt(timers, i)
    /\ reconnectAttempts' = reconnectAttempts + 1
    /\ chan' = ConnectChan(chan)
    /\ wsRef' = ConnectRef(chan, wsRef)
    /\ lastError' = ConnectErr(lastError)
    /\ onCloseCalls' = ConnectCalls(onCloseCalls)
    /\ calls' = <<>>
    /\ UNCHANGED <<urlOk, mounted, reconnectTimeoutRef, isConnected, timersSet,
                   lastDelay, everOpened, disconnected, exhausted, sinceOpen, callerActs>>

\* send(data), called by the caller through the returned function
Send ==
    /\ callerActs < MaxCallerActs
    /\ callerActs' = callerActs + 1
    /\ io' = IF MaySend(chan, wsRef)
             THEN [kind |-> "sent", chan |-> wsRef, afterDrop |-> FALSE]
             ELSE [kind |-> "refused", chan |-> 0, afterDrop |-> FALSE]
    /\ calls' = <<>>
    /\ UNCHANGED <<urlOk, mounted, chan, wsRef, reconnectAttempts, reconnectTimeoutRef,
                   timers, isConnected, lastError, timersSet, lastDelay, onCloseCalls,
                   everOpened, disconnected, exhausted, sinceOpen>>

\* ws.onmessage: an established channel receives a message whose data JSON.parse
\* accepts (parses) or rejects
ChannelMessage(c, parses) ==
    /\ chan[c] = "open"
    /\ calls' = OnMessageCalls(parses)
    /\ io' = [kind |-> IF parses THEN "wellFormed" ELSE "malformed", chan |-> c,
              afterDrop |-> io.kind = "malformed" /\ io.chan = c]
    /\ UNCHANGED <<urlOk, mounted, chan, wsRef, reconnectAttempts, reconnectTimeoutRef,
                   timers, isConnected, lastError, timersSet, lastDelay, onCloseCalls,
                   everOpened, disconnected, exhausted, sinceOpen, callerActs>>

(***************************************************************************)
(* Observability: the metrics history fed by the stream client's onMessage *)
(***************************************************************************)
\* the parsed messages onMessage may be handed:
\*   "null"       : a falsy value (JSON null, 0, "")
\*   "stats"      : {type: "stats", data: {...}}
\*   "statsNoData": {type: "stats"} without a data object
\*   "other"      : an object of another type, or of none
MessageKinds == {"null", "stats", "statsNoData", "other"}

\* Array.prototype.slice(-k): the last k elements, all of them when there are fewer
SliceLast(s, k) == IF Len(s) <= k THEN s ELSE SubSeq(s, Len(s) - k + 1, Len(s))
SliceFirst(s, k) == IF Len(s) <= k THEN s ELSE SubSeq(s, 1, k)

\* setMetricsHistory((prev) => [...prev.slice(-99), snapshot])
AppendNoEvict(prev, snapshot) == Append(prev, snapshot)
AppendEvictNewest(prev, snapshot) == Append(SliceFirst(prev, HistoryKeep), snapshot)
AppendSnapshot(prev, snapshot) == Append(SliceLast(prev, HistoryKeep), snapshot)

\* the snapshot built from a stats payload; its timestamp (new Date()) is
\* represented by the rank of the snapshot among those appended
Snapshot(rank) == [timestamp |-> rank]

InitBuffer ==
    /\ metricsHistory = <<>>
    /\ streamStats = "null"
    /\ appended = 0

ObsOnMessageAnyType(kind) ==
    /\ appended < MaxAppends
    /\ IF kind \in {"stats", "other"}
       THEN /\ streamStats' = "payload"
            /\ metricsHistory' = AppendSnapshot(metricsHistory, Snapshot(appended + 1))
            /\ appended' = appended + 1
       ELSE IF kind = "statsNoData"
       THEN /\ streamStats' = "undefined"
            /\ UNCHANGED <<metricsHistory, appended>>
       ELSE UNCHANGED <<metricsHistory, streamStats, appended>>

\* onMessage: (data) => { if (data && data.type === "stats") { ... } }
\* A stats message without a data object throws at data.data.cache_hits, after
\* setStreamStats and before setMetricsHistory; ws.onmessage catches it.
ObsOnMessage(kind) ==
    /\ appended < MaxAppends
    /\ IF kind = "stats"
       THEN /\ streamStats' = "payload"
            /\ metricsHistory' = AppendSnapshot(metricsHistory, Snapshot(appended + 1))
            /\ appended' = appended + 1
       ELSE IF kind = "statsNoData"
       THEN /\ streamStats' = "undefined"
            /\ UNCHANGED <<metricsHistory, appended>>
       ELSE UNCHANGED <<metricsHistory, streamStats, appended>>

(***************************************************************************)
(* lib/api.ts: the fallback synthesizer                                    *)
(***************************************************************************)
\* getFallbackData: const symbols = ["AAPL", "MSFT", "GOOGL", "AMZN", "TSLA"]
FallbackSymbols == {"AAPL", "MSFT", "GOOGL", "AMZN", "TSLA"}

\* the symbols callers pass to fetchPrice, and String.prototype.toUpperCase on them
CallerSymbols == {"AAPL", "aapl", "Tsla", "NVDA"}
ToUpperCase(sym) ==
    CASE sym = "aapl" -> "AAPL"
      [] sym = "Tsla" -> "TSLA"
      [] OTHER -> sym

NoMap == [sym \in {} |-> 0]

\* generateFallbackPriceData(symbol): the random draws of one generation are
\* represented by the number of the generation
FallbackQuote(sym, gen) ==
    [symbol |-> sym, source |-> "fallback", gen |-> gen, latency_us |-> 0]

\* getFallbackData: if (forceRefresh || now - lastFallbackUpdate > cacheExpiry
\*                      || Object.keys(fallbackDataCache).length === 0)
RegeneratesAtExpiry(forceRefresh) ==
    \/ forceRefresh
    \/ now - lastFallbackUpdate >= cacheExpiry
    \/ DOMAIN fallbackDataCache = {}
Regenerates(forceRefresh) ==
    \/ forceRefresh
    \/ now - lastFallbackUpdate > cacheExpiry
    \/ DOMAIN fallbackDataCache = {}

\* getFallbackData(forceRefresh): its effect on the module variables; the mapping
\* it returns is fallbackDataCache'
GetFallbackData(forceRefresh) ==
    IF Regenerates(forceRefresh)
    THEN /\ fallbackDataCache' = [sym \in FallbackSymbols |->
                                     FallbackQuote(sym, generations + 1)]
         /\ generations' = generations + 1
         /\ lastFallbackUpdate' = now
    ELSE UNCHANGED <<fallbackDataCache, generations, lastFallbackUpdate>>

(***************************************************************************)
(* lib/api.ts: fetchPrice, fetchAllPrices, fetchStats                      *)
(***************************************************************************)
\* Values a call resolves to. tag tells what the value is:
\*   "quote"     : a PriceData object (map holds it under its key)
\*   "map"       : a mapping symbol -> PriceData
\*   "stats"     : a CacheStats object (stats holds it)
\*   "null", "undefined", "primitive", "object": the JSON value received, passed on
NoStats == [cache_hits |-> 0, cache_misses |-> 0, total_requests |-> 0,
            hit_rate_milli |-> 0, source |-> "none"]
Value(tag, map, stats) == [tag |-> tag, map |-> map, stats |-> stats]
NoValue == Value("none", NoMap, NoStats)

\* fetchStats: the synthetic object of the failure paths; Math.random() takes
\* its extreme values; hit_rate_percent is held in thousandths of a percent
SyntheticStats ==
    [cache_hits : {0, 9999}, cache_misses : {0, 99}, total_requests : {0, 10099},
     hit_rate_milli : {99500, 99999}, source : {"synthetic"}]
LiveStats ==
    [cache_hits |-> 90, cache_misses |-> 10, total_requests |-> 100,
     hit_rate_milli |-> 90000, source |-> "live"]

\* The bodies of a 2xx response, once parsed by response.json():
\*  /price/{SYMBOL}: "quote" (a PriceData object), "object" (an object of
\*      another shape), "null" (JSON null)
\*  /stats: "stats" ({cache_stats: {...}}), "noField" (an object without
\*      cache_stats), "null"
\*  /prices: "mapping" ({prices: {...}, latency_us}; an entry is a PriceData
\*      object, "quote", or null or a primitive, "bad"), "noField" (no prices),
\*      "primitive" (prices is a number), "null"
LiveSymbols == {"AAPL", "MSFT", "NVDA"}
\* Object.keys(prices): the order in which the response lists the symbols
LiveOrder == <<"AAPL", "MSFT", "NVDA">>
BatchLatencies == {7, 9}
Body(shape, entries, latency) == [shape |-> shape, entries |-> entries, latency |-> latency]
NoBody == Body("none", NoMap, 0)
PriceBodies == {Body(sh, NoMap, 0) : sh \in {"quote", "object", "null"}}
StatsBodies == {Body(sh, NoMap, 0) : sh \in {"stats", "noField", "null"}}
PricesBodies ==
    {Body(sh, NoMap, 0) : sh \in {"noField", "primitive", "null"}}
    \cup {Body("mapping", e, l) :
            e \in UNION {[S -> {"quote", "bad"}] : S \in SUBSET LiveSymbols},
            l \in BatchLatencies}
BodiesOf(op) ==
    CASE op = "fetchPrice" -> PriceBodies
      [] op = "fetchAllPrices" -> PricesBodies
      [] op = "fetchStats" -> StatsBodies
      [] OTHER -> {}

LiveQuote(sym, latency) ==
    [symbol |-> sym, source |-> "live", gen |-> 0, latency_us |-> latency]

\* a quote of the /prices response as the upstream sent it, with a latency_us
\* of its own
UpstreamQuote(sym) == LiveQuote(sym, 1)

\* prices[symbol].latency_us = data.latency_us
StampKeepsOwn(quote, latency) == quote
Stamp(quote, latency) == [quote EXCEPT !.latency_us = latency]

\* fetchAllPrices: Object.keys(prices).forEach(symbol => {
\*                    prices[symbol].latency_us = data.latency_us; })
\* over the keys still to visit; an entry that is null or a primitive throws.
\* Yields the stamped mapping, or thrown.
RECURSIVE StampFrom(_, _, _)
StampFrom(keys, body, stamped) ==
    IF keys = <<>> THEN [thrown |-> FALSE, map |-> stamped]
    ELSE IF Head(keys) \notin DOMAIN body.entries
         THEN StampFrom(Tail(keys), body, stamped)
    ELSE IF body.entries[Head(keys)] = "bad"
         THEN [thrown |-> TRUE, map |-> stamped]
    ELSE StampFrom(Tail(keys), body,
                   [sym \in DOMAIN stamped \cup {Head(keys)} |->
                      IF sym = Head(keys) THEN Stamp(UpstreamQuote(sym), body.latency)
                      ELSE stamped[sym]])

\* the try block of fetchAllPrices after response.json(): the value returned,
\* or thrown
StampSkippingBad(body) ==
    [thrown |-> FALSE,
     value |-> Value("map", [sym \in {k \in DOMAIN body.entries : body.entries[k] = "quote"} |->
                               LiveQuote(sym, body.latency)], NoStats)]
ProcessPrices(body) ==
    CASE body.shape \in {"null", "noField"} -> [thrown |-> TRUE, value |-> NoValue]
      [] body.shape = "primitive" ->
            [thrown |-> FALSE, value |-> Value("primitive", NoMap, NoStats)]
      [] body.shape = "mapping" ->
            LET r == StampFrom(LiveOrder, body, NoMap) IN
              [thrown |-> r.thrown,
               value |-> IF r.thrown THEN NoValue ELSE Value("map", r.map, NoStats)]

\* the try block of fetchStats after response.json(): return data.cache_stats
ProcessStats(body) ==
    CASE body.shape = "null" -> [thrown |-> TRUE, value |-> NoValue]
      [] body.shape = "noField" ->
            [thrown |-> FALSE, value |-> Value("undefined", NoMap, NoStats)]
      [] body.shape = "stats" ->
            [thrown |-> FALSE, value |-> Value("stats", NoMap, LiveStats)]

\* the try block of fetchPrice after the status check: return await response.json()
ProcessPrice(body, sym) ==
    CASE body.shape = "quote" ->
            [thrown |-> FALSE,
             value |-> Value("quote", [k \in {ToUpperCase(sym)} |->
                                         LiveQuote(ToUpperCase(sym), 1)], NoStats)]
      [] body.shape = "object" ->
            [thrown |-> FALSE, value |-> Value("object", NoMap, NoStats)]
      [] body.shape = "null" ->
            [thrown |-> FALSE, value |-> Value("null", NoMap, NoStats)]

Process(op, body, sym) ==
    CASE op = "fetchPrice" -> ProcessPrice(body, sym)
      [] op = "fetchAllPrices" -> ProcessPrices(body)
      [] op = "fetchStats" -> ProcessStats(body)

\* whether a parsed body has the shape the operation expects
WellShaped(op, body) ==
    CASE op = "fetchPrice" -> body.shape = "quote"
      [] op = "fetchAllPrices" ->
            body.shape = "mapping" /\ \A k \in DOMAIN body.entries : body.entries[k] = "quote"
      [] op = "fetchStats" -> body.shape = "stats"

\* getFallbackData()[symbol.toUpperCase()] || null
LookupFallbackExact(map, sym) ==
    IF sym \in DOMAIN map
    THEN Value("quote", [k \in {sym} |-> map[k]], NoStats)
    ELSE Value("null", NoMap, NoStats)
LookupFallback(map, sym) ==
    IF ToUpperCase(sym) \in DOMAIN map
    THEN Value("quote", [k \in {ToUpperCase(sym)} |-> map[k]], NoStats)
    ELSE Value("null", NoMap, NoStats)

\* AbortSignal.timeout(5000) is passed by fetchPrice and fetchStats only
PassesTimeout(op) == op \in {"fetchPrice", "fetchStats"}

Idle == [op |-> "none", symbol |-> "", forceRefresh |-> FALSE, pc |-> "idle",
         armed |-> FALSE, failure |-> "none", body |-> NoBody]
Pending == [kind |-> "pending", value |-> NoValue]
Resolved(v) == [kind |-> "resolved", value |-> v]
Rejected == [kind |-> "rejected", value |-> NoValue]
ResultKinds == {"none", "pending", "resolved", "rejected", "returned"}

InitFetch ==
    /\ now = 0
    /\ fallbackDataCache = NoMap
    /\ lastFallbackUpdate = 0
    /\ generations = 0
    /\ call = Idle
    /\ result = [kind |-> "none", value |-> NoValue]
    /\ ncalls = 0

\* a caller calls fetchPrice(sym), fetchAllPrices() or fetchStats(): up to the
\* await of fetch(...)
StartCall(op, sym) ==
    /\ call.pc \in {"idle", "done"}
    /\ ncalls < MaxCalls
    /\ ncalls' = ncalls + 1
    /\ call' = [op |-> op, symbol |-> sym, forceRefresh |-> FALSE, pc |-> "fetching",
                armed |-> PassesTimeout(op), failure |-> "none", body |-> NoBody]
    /\ result' = Pending
    /\ UNCHANGED <<now, fallbackDataCache, lastFallbackUpdate, generations>>

\* how the promise settles on a failure path: the catch blocks (and the
\* branches if (!response.ok)) return a value; none of them throws
SettleFailure(op, v) == Resolved(v)

\* the failure paths: the branch if (!response.ok) and the catch block
FailurePath(failure, body) ==
    /\ call' = [call EXCEPT !.pc = "done", !.failure = failure, !.body = body]
    /\ CASE call.op = "fetchPrice" ->
              /\ GetFallbackData(FALSE)
              /\ result' = SettleFailure(call.op,
                                LookupFallback(fallbackDataCache', call.symbol))
         [] call.op = "fetchAllPrices" ->
              /\ GetFallbackData(FALSE)
              /\ result' = SettleFailure(call.op, Value("map", fallbackDataCache', NoStats))
         [] call.op = "fetchStats" ->
              /\ \E st \in SyntheticStats :
                    result' = SettleFailure(call.op, Value("stats", NoMap, st))
              /\ UNCHANGED <<fallbackDataCache, generations, lastFallbackUpdate>>
    /\ UNCHANGED <<now, ncalls>>

\* fetch() rejects: the upstream is unreachable
FetchRejects ==
    /\ call.pc = "fetching"
    /\ FailurePath("network", NoBody)

\* the timeout signal aborts the request, while fetch() or response.json() is awaited
FetchTimeout ==
    /\ call.pc \in {"fetching", "body"}
    /\ call.armed
    /\ FailurePath("timeout", NoBody)

\* fetch() resolves with a response of a non-success status
RespondsNotOk ==
    /\ call.pc = "fetching"
    /\ FailurePath("status", NoBody)

\* fetch() resolves with a 2xx response: response.json() is awaited
RespondsOk ==
    /\ call.pc = "fetching"
    /\ call' = [call EXCEPT !.pc = "body"]
    /\ UNCHANGED <<now, fallbackDataCache, lastFallbackUpdate, generations, result, ncalls>>

\* response.json() rejects: the body is not JSON
BodyUnparseable ==
    /\ call.pc = "body"
    /\ FailurePath("unparseable", NoBody)

\* response.json() resolves with body: the rest of the try block, and the
\* catch block when it throws
BodyParsed(body) ==
    /\ call.pc = "body"
    /\ LET r == Process(call.op, body, call.symbol)
           failure == IF WellShaped(call.op, body) THEN "none" ELSE "misshaped" IN
         IF r.thrown
         THEN FailurePath(failure, body)
         ELSE /\ call' = [call EXCEPT !.pc = "done", !.failure = failure, !.body = body]
              /\ result' = Resolved(r.value)
              /\ UNCHANGED <<now, fallbackDataCache, lastFallbackUpdate, generations, ncalls>>

\* getFallbackData(forceRefresh) called on its own: the mapping it returns
CallGetFallbackData(forceRefresh) ==
    /\ ncalls < MaxSynthCalls
    /\ ncalls' = ncalls + 1
    /\ GetFallbackData(forceRefresh)
    /\ call' = [Idle EXCEPT !.op = "getFallbackData", !.forceRefresh = forceRefresh,
                            !.pc = "done"]
    /\ result' = [kind |-> "returned", value |-> Value("map", fallbackDataCache', NoStats)]
    /\ UNCHANGED now

\* a second passes
Tick ==
    /\ now < MaxSeconds * 1000
    /\ now' = now + 1000
    /\ UNCHANGED <<fallbackDataCache, lastFallbackUpdate, generations, call, result, ncalls>>

(***************************************************************************)
(* hooks/usePrice.ts: usePrice and usePrices                               *)
(***************************************************************************)
PollHooks == {"usePrice", "usePrices"}
\* the symbols usePrice is given
PollSymbols == {"AAPL", "NVDA"}

\* usePrice awaits fetchPrice(symbol), usePrices awaits fetchAllPrices()
HookOp(h) == IF h = "usePrice" THEN "fetchPrice" ELSE "fetchAllPrices"

\* the body of a 2xx response of the live upstream
LiveBody(op) ==
    IF op = "fetchPrice" THEN Body("quote", NoMap, 0)
    ELSE Body("mapping", [sym \in LiveSymbols |-> "quote"], 7)

\* what the awaited call resolves to: the live value, or on a failure path the
\* fallback value taken from the mapping getFallbackData() returned
Fetched(op, sym, outcome, map) ==
    IF outcome = "live" THEN Process(op, LiveBody(op), sym).value
    ELSE IF op = "fetchPrice" THEN LookupFallback(map, sym)
    ELSE Value("map", map, NoStats)

\* if (data)
Truthy(v) == v.tag \notin {"null", "undefined", "none"}

\* the state price / prices and the request whose data it holds
NoPrice == [req |-> 0, value |-> NoValue]

\* fetchData after the await: if (data) { setPrice(data); ... }
SetPriceIfNewer(cur, r, data) ==
    IF Truthy(data) /\ r > cur.req THEN [req |-> r, value |-> data] ELSE cur
SetPrice(cur, r, data) ==
    IF Truthy(data) THEN [req |-> r, value |-> data] ELSE cur

\* fetchData after the await: setError(null) or setError("Failed to fetch ...")
SetError(data) == IF Truthy(data) THEN "null" ELSE "failed"

InitPoll ==
    /\ hook \in PollHooks
    /\ pollSymbol = "AAPL"
    /\ pollPc = "init"
    /\ nextTick = 0
    /\ intervals = {}
    /\ epoch = 0
    /\ requests = <<>>
    /\ price = NoPrice
    /\ pollError = "null"
    /\ loading = TRUE
    /\ arrived = 0

\* the hooks as they are while another part is observed
InitPollIdle == InitPoll /\ hook = "usePrice"

\* fetchData up to its await: setLoading(true) and the call of the fetch client
FetchDataStarts(sym, loop) ==
    /\ Len(requests) < MaxRequests
    /\ requests' = Append(requests, [symbol |-> sym, epoch |-> loop, start |-> now,
                                     pc |-> "fetching"])
    /\ loading' = TRUE

\* const timer = setInterval(fetchData, interval): fetchData is the closure of
\* this run of the effect, over its symbol
SetInterval(ts, sym, loop, t) == ts \cup {[symbol |-> sym, epoch |-> loop, due |-> t + pollInterval]}

\* a cleanup that returned without clearing its timer
ClearNothing(ts, loop) == ts
\* the cleanup of the effect: return () => clearInterval(timer)
ClearInterval(ts, loop) == {t \in ts : t.epoch # loop}

\* the first run of the effect: fetchData(); setInterval(fetchData, interval)
PollMount ==
    /\ pollPc = "init"
    /\ pollPc' = "mounted"
    /\ epoch' = epoch + 1
    /\ FetchDataStarts(pollSymbol, epoch + 1)
    /\ nextTick' = now + pollInterval
    /\ intervals' = SetInterval(intervals, pollSymbol, epoch + 1, now)
    /\ UNCHANGED <<hook, pollSymbol, price, pollError, arrived, fetchVars>>

\* the interval timer fires: fetchData()
IntervalFires ==
    /\ \E t \in intervals :
          /\ now >= t.due
          /\ FetchDataStarts(t.symbol, t.epoch)
          /\ intervals' = (intervals \ {t}) \cup {[t EXCEPT !.due = t.due + pollInterval]}
    /\ nextTick' = nextTick + pollInterval
    /\ UNCHANGED <<hook, pollSymbol, pollPc, epoch, price, pollError, arrived, fetchVars>>

\* usePrice is rendered with another symbol: the cleanup of the effect
\* (clearInterval) and its next run
Retarget(sym) ==
    /\ pollPc = "mounted"
    /\ hook = "usePrice"
    /\ sym # pollSymbol
    /\ pollSymbol' = sym
    /\ epoch' = epoch + 1
    /\ FetchDataStarts(sym, epoch + 1)
    /\ nextTick' = now + pollInterval
    /\ intervals' = SetInterval(ClearInterval(intervals, epoch), sym, epoch + 1, now)
    /\ UNCHANGED <<hook, pollPc, price, pollError, arrived, fetchVars>>

\* the component unmounts: the cleanup of the effect (clearInterval)
PollUnmount ==
    /\ pollPc = "mounted"
    /\ pollPc' = "unmounted"
    /\ nextTick' = 0
    /\ intervals' = ClearInterval(intervals, epoch)
    /\ UNCHANGED <<hook, pollSymbol, epoch, requests, price, pollError, loading, arrived,
                   fetchVars>>

\* the awaited call of request r resolves and fetchData runs to its end; React
\* ignores the state updates of an unmounted component
FetchDataResumes(r, outcome) ==
    /\ requests[r].pc = "fetching"
    /\ requests' = [requests EXCEPT ![r].pc = outcome]
    /\ IF outcome = "live"
       THEN UNCHANGED <<fallbackDataCache, generations, lastFallbackUpdate>>
       ELSE GetFallbackData(FALSE)
    /\ LET data == Fetched(HookOp(hook), requests[r].symbol, outcome, fallbackDataCache') IN
         /\ arrived' = r
         /\ IF pollPc = "mounted"
            THEN /\ price' = SetPrice(price, r, data)
                 /\ pollError' = SetError(data)
                 /\ loading' = FALSE
            ELSE UNCHANGED <<price, pollError, loading>>
    /\ UNCHANGED <<hook, pollSymbol, pollPc, nextTick, intervals, epoch, now, call, result, ncalls>>

\* the upstream answers request r with a quote (a mapping of quotes)
RequestSucceeds(r) == FetchDataResumes(r, "live")

\* the upstream answers request r with a non-success status, or is unreachable
RequestFails(r) == FetchDataResumes(r, "failed")

\* the timeout signal of request r aborts it, 5 s after it started
RequestTimesOut(r) ==
    /\ PassesTimeout(HookOp(hook))
    /\ now >= requests[r].start + fetchTimeoutMs
    /\ FetchDataResumes(r, "timeout")

\* a timer is due: the interval timer, or the timeout of a request in flight
TimerDue ==
    \/ \E t \in intervals : now >= t.due
    \/ /\ PassesTimeout(HookOp(hook))
       /\ \E r \in 1..Len(requests) :
             requests[r].pc = "fetching" /\ now >= requests[r].start + fetchTimeoutMs

\* a second passes; a timer that is due fires first
Elapse ==
    /\ now < MaxPollSeconds * 1000
    /\ ~TimerDue
    /\ now' = now + 1000
    /\ UNCHANGED <<fallbackDataCache, lastFallbackUpdate, generations, call, result, ncalls,
                   pollVars>>

(***************************************************************************)
(* lib/api.ts: calculateStats                                              *)
(***************************************************************************)
\* the latencies a benchmark measures, in hundredths of a millisecond
SampleValues == {30, 35, 40, 90, 120}
SampleSeqs == UNION {[1..n -> SampleValues] : n \in 0..MaxSamples}

\* a[i] for a 0-based index i: undefined outside the array
Undefined == "undefined"
ElementAt(a, i) == IF i + 1 \in 1..Len(a) THEN a[i + 1] ELSE Undefined

\* a with x inserted before its first element greater than x
RECURSIVE InsertAscending(_, _)
InsertAscending(a, x) ==
    IF a = <<>> THEN <<x>>
    ELSE IF x < Head(a) THEN <<x>> \o a
    ELSE <<Head(a)>> \o InsertAscending(Tail(a), x)
RECURSIVE InsertDescending(_, _)
InsertDescending(a, x) ==
    IF a = <<>> THEN <<x>>
    ELSE IF x > Head(a) THEN <<x>> \o a
    ELSE <<Head(a)>> \o InsertDescending(Tail(a), x)

\* [...latencies].sort((a, b) => a - b)
RECURSIVE SortDescending(_)
SortDescending(a) ==
    IF a = <<>> THEN <<>> ELSE InsertDescending(SortDescending(Tail(a)), Head(a))
RECURSIVE SortAscending(_)
SortAscending(a) ==
    IF a = <<>> THEN <<>> ELSE InsertAscending(SortAscending(Tail(a)), Head(a))

\* sorted.reduce((a, b) => a + b, 0)
RECURSIVE Sum(_)
Sum(a) == IF a = <<>> THEN 0 ELSE Head(a) + Sum(Tail(a))

\* a quotient kept as a fraction; 0 / 0 is NaN
NaN == "NaN"
Quotient(num, den) == IF den = 0 /\ num = 0 THEN NaN ELSE [num |-> num, den |-> den]

\* Math.floor(len / 2), Math.floor(len * 0.95), Math.floor(len * 0.99)
MedianIndexLow(len) == (len - 1) \div 2
MedianIndex(len) == len \div 2
P95Index(len) == (len * 95) \div 100
P99Index(len) == (len * 99) \div 100

CalculateStats(a) ==
    LET sorted == SortAscending(a)
        len == Len(sorted) IN
      [min |-> ElementAt(sorted, 0),
       max |-> ElementAt(sorted, len - 1),
       mean |-> Quotient(Sum(sorted), len),
       median |-> ElementAt(sorted, MedianIndex(len)),
       p95 |-> ElementAt(sorted, P95Index(len)),
       p99 |-> ElementAt(sorted, P99Index(len))]

NoSummary == [min |-> 0, max |-> 0, mean |-> 0, median |-> 0, p95 |-> 0, p99 |-> 0]
NotCalled == [kind |-> "none", value |-> NoSummary]

InitStats ==
    /\ latencies \in SampleSeqs
    /\ summary = NotCalled

\* calculateStats(latencies): no statement of it throws
Summarize ==
    /\ summary.kind = "none"
    /\ summary' = [kind |-> "returned", value |-> CalculateStats(latencies)]
    /\ UNCHANGED latencies

(***************************************************************************)
(* pages/Benchmark.tsx: handleRunBenchmark, handleReset, handleExport      *)
(***************************************************************************)
\* const SYMBOLS = ["AAPL", "MSFT", "GOOGL"]; the loop runs over SYMBOLS.slice(0, 2)
BenchSymbols == <<"AAPL", "MSFT">>

\* what benchmarkCachedLatency and benchmarkUncachedLatency measure with
\* performance.now(): both in tenths of a millisecond
CachedRuns == {<<3, 4, 5>>, <<4, 4>>}
UncachedRuns == {<<90, 110, 100>>, <<120, 120, 120>>}

Fraction(num, den) == [num |-> num, den |-> den]

\* const speedup = (uncachedStats.mean * 1000) / cachedStats.mean
Speedup(uncachedMean, cachedMean) ==
    Fraction(uncachedMean.num * 1000 * cachedMean.den, uncachedMean.den * cachedMean.num)

\* a row of results; measured tells the rows computed by handleRunBenchmark from
\* the rows the page starts with
Row(symbol, cachedMean, uncachedMean, speedup, measured) ==
    [symbol |-> symbol, cachedMean |-> cachedMean, uncachedMean |-> uncachedMean,
     speedup |-> speedup, measured |-> measured]

\* useState<BenchmarkResult[]>([...]): the rows shown before any run
DemoResults ==
    <<Row("AAPL", Fraction(34, 100), Fraction(11231, 100), Fraction(330785, 1), FALSE),
      Row("MSFT", Fraction(44, 100), Fraction(11075, 100), Fraction(252655, 1), FALSE)>>

\* newResults.push({symbol, cachedMean: cachedStats.mean, ..., speedup, ...})
MeasuredRow(symbol, cachedLatencies, uncachedLatencies) ==
    LET cachedStats == CalculateStats(cachedLatencies)
        uncachedStats == CalculateStats(uncachedLatencies) IN
      Row(symbol, cachedStats.mean, uncachedStats.mean,
          Speedup(uncachedStats.mean, cachedStats.mean), TRUE)

\* handleExport: results.map((r) => ({symbol, cached_latency_us: r.cachedMean,
\*                 uncached_latency_us: r.uncachedMean, speedup_factor: r.speedup, ...}))
ExportRow(r) ==
    [symbol |-> r.symbol, cached_latency_us |-> r.cachedMean,
     uncached_latency_us |-> r.uncachedMean, speedup_factor |-> r.speedup,
     measured |-> r.measured]

InitBench ==
    /\ benchPc = "idle"
    /\ newResults = <<>>
    /\ results = DemoResults
    /\ exportData = <<>>

\* handleRunBenchmark up to its loop: setIsRunning(true); setResults([])
RunBenchmarkStarts ==
    /\ benchPc = "idle"
    /\ benchPc' = "running"
    /\ results' = <<>>
    /\ newResults' = <<>>
    /\ UNCHANGED exportData

\* one iteration of the loop: both benchmarks of a symbol, the two summaries,
\* the speedup and the push
MeasureSymbol(cachedLatencies, uncachedLatencies) ==
    /\ benchPc = "running"
    /\ Len(newResults) < Len(BenchSymbols)
    /\ newResults' = Append(newResults,
                            MeasuredRow(BenchSymbols[Len(newResults) + 1],
                                        cachedLatencies, uncachedLatencies))
    /\ UNCHANGED <<benchPc, results, exportData>>

\* after the loop: setResults(newResults); the latency distribution computed
\* next goes to a chart and is left out; setIsRunning(false) in finally
RunBenchmarkEnds ==
    /\ benchPc = "running"
    /\ Len(newResults) = Len(BenchSymbols)
    /\ results' = newResults
    /\ benchPc' = "idle"
    /\ UNCHANGED <<newResults, exportData>>

\* handleReset; its button is disabled while a benchmark runs
Reset ==
    /\ benchPc = "idle"
    /\ results' = DemoResults
    /\ UNCHANGED <<benchPc, newResults, exportData>>

\* handleExport(format); its buttons are rendered when results.length > 0
Export ==
    /\ Len(results) > 0
    /\ exportData' = [i \in 1..Len(results) |-> ExportRow(results[i])]
    /\ UNCHANGED <<benchPc, newResults, results>>

(***************************************************************************)
(* lib/api.ts: generateFallbackPriceData, with its arithmetic               *)
(* Prices are in millionths of a dollar until toFixed(2) makes them cents.  *)
(***************************************************************************)
basePrice ==
    [sym \in FallbackSymbols |->
        CASE sym = "AAPL" -> 181500000
          [] sym = "MSFT" -> 445000000
          [] sym = "GOOGL" -> 140000000
          [] sym = "AMZN" -> 196000000
          [] OTHER -> 242000000]

\* const base = basePrice[symbol] || 150
Base(symbol) == IF symbol \in DOMAIN basePrice THEN basePrice[symbol] ELSE 150000000

\* Math.random() is in [0, 1): the draws k stand for k / 1000
RandomDraws == {0, 1, 250, 499, 500, 501, 750, 999}

VolatilityWide(r) == (r - 500) * 6000

\* const volatility = (Math.random() - 0.5) * 2
Volatility(r) == (r - 500) * 2000

SpreadCrossed(amount) == 0 - (amount \div 1000)

\* const spread = price * 0.001
Spread(amount) == amount \div 1000

\* parseFloat(x.toFixed(2)) on a non-negative amount of millionths: cents
ToFixed2(x) == (x + 5000) \div 10000

\* parseFloat((Math.random() * 0.8 + 0.1).toFixed(2)), in hundredths of a microsecond
LatencyUs(r) == (r * 8 + 1000 + 50) \div 100

\* the fields of the returned quote that carry a price or a latency; volume,
\* latency_ns and timestamp are independent draws nothing here reads
GenerateFallbackPriceData(symbol, rnd) ==
    LET base == Base(symbol)
        exact == base + Volatility(rnd.volatility)
        spread == Spread(exact) IN
      [symbol |-> symbol,
       price |-> ToFixed2(exact),
       bid |-> ToFixed2(exact - spread),
       ask |-> ToFixed2(exact + spread),
       latency_us |-> LatencyUs(rnd.latency),
       source |-> "fallback"]

NoQuote == [symbol |-> "", price |-> 0, bid |-> 0, ask |-> 0, latency_us |-> 0,
            source |-> "none"]

InitQuote ==
    /\ synthSymbol \in FallbackSymbols
    /\ random \in [volatility : RandomDraws, latency : RandomDraws]
    /\ synthQuote = NoQuote

InitQuoteIdle ==
    /\ synthSymbol = "AAPL"
    /\ random = [volatility |-> 0, latency |-> 0]
    /\ synthQuote = NoQuote

\* one call of generateFallbackPriceData
Generate ==
    /\ synthQuote = NoQuote
    /\ synthQuote' = GenerateFallbackPriceData(synthSymbol, random)
    /\ UNCHANGED <<synthSymbol, random>>

(***************************************************************************)
(* hooks/usePrice.ts: benchmarkToCSV, metricsToCSV, metricsToJSON           *)
(* A text is a sequence of tokens: a comma, a double quote and a line break *)
(* are tokens of their own, any run of other characters is one token.       *)
(* Numbers with decimals are in thousandths.                                *)
(***************************************************************************)
Comma == ","
DoubleQuote == "\""
LineBreak == "\n"

\* Array.prototype.join on texts
RECURSIVE Join(_, _)
Join(texts, separator) ==
    IF Len(texts) = 0 THEN <<>>
    ELSE IF Len(texts) = 1 THEN texts[1]
    ELSE texts[1] \o <<separator>> \o Join(Tail(texts), separator)

\* the decimals of toFixed, with their leading zeros
Pad(n, width) ==
    IF width = 3 /\ n < 10 THEN "00" \o ToString(n)
    ELSE IF width = 3 /\ n < 100 THEN "0" \o ToString(n)
    ELSE IF width = 2 /\ n < 10 THEN "0" \o ToString(n)
    ELSE ToString(n)

\* Number.prototype.toFixed(fractionDigits) on a non-negative number
ToFixed(x, fractionDigits) ==
    CASE fractionDigits = 3 -> <<ToString(x \div 1000) \o "." \o Pad(x % 1000, 3)>>
      [] fractionDigits = 2 ->
           LET r == (x + 5) \div 10 IN <<ToString(r \div 100) \o "." \o Pad(r % 100, 2)>>
      [] OTHER -> <<ToString((x + 500) \div 1000)>>

\* `${cell}` of an integer
Template(n) == <<ToString(n)>>

\* (cell) => `"${cell}"`
QuoteCell(cell) == <<DoubleQuote>> \o cell \o <<DoubleQuote>>

\* [headers.join(","), ...rows.map((row) => row.map(quote).join(","))].join("\n")
CsvContent(headers, rows) ==
    Join(<<Join(headers, Comma)>>
           \o [i \in 1..Len(rows) |->
                  Join([j \in 1..Len(rows[i]) |-> QuoteCell(rows[i][j])], Comma)],
         LineBreak)

BenchmarkHeaders ==
    << <<"Symbol">>, <<"Cached Latency (us)">>, <<"Uncached Latency (us)">>,
       <<"Speedup Factor">>, <<"P95 Latency (us)">>, <<"P99 Latency (us)">>,
       <<"Sample Count">>, <<"Timestamp">> >>

\* results.map((result) => [...])
BenchmarkCells(r) ==
    << <<r.symbol>>, ToFixed(r.cached_latency_us, 3), ToFixed(r.uncached_latency_us, 3),
       ToFixed(r.speedup_factor, 0), ToFixed(r.p95_latency_us, 3),
       ToFixed(r.p99_latency_us, 3), Template(r.sample_count), <<r.timestamp>> >>

BenchmarkToCSV(rs) ==
    IF Len(rs) = 0 THEN <<"No benchmark results to export">>
    ELSE CsvContent(BenchmarkHeaders, [i \in 1..Len(rs) |-> BenchmarkCells(rs[i])])

MetricsHeaders ==
    << <<"Timestamp">>, <<"Cache Hits">>, <<"Cache Misses">>, <<"Stale Hits">>,
       <<"Hit Rate (%)">>, <<"Avg Latency (us)">>, <<"P95 Latency (us)">>,
       <<"P99 Latency (us)">>, <<"Refresh Errors">>, <<"Cache Size">> >>

MetricCellsNoSize(m) ==
    << <<m.timestamp>>, Template(m.cache_hits), Template(m.cache_misses),
       Template(m.stale_hits), ToFixed(m.hit_rate_percent, 2), ToFixed(m.avg_latency_us, 3),
       ToFixed(m.p95_latency_us, 3), ToFixed(m.p99_latency_us, 3),
       Template(m.refresh_errors) >>

\* metrics.map((metric) => [...])
MetricCells(m) ==
    << <<m.timestamp>>, Template(m.cache_hits), Template(m.cache_misses),
       Template(m.stale_hits), ToFixed(m.hit_rate_percent, 2), ToFixed(m.avg_latency_us, 3),
       ToFixed(m.p95_latency_us, 3), ToFixed(m.p99_latency_us, 3),
       Template(m.refresh_errors), Template(m.cache_size) >>

MetricsToCSV(ms) ==
    IF Len(ms) = 0 THEN <<"No metrics data to export">>
    ELSE CsvContent(MetricsHeaders, [i \in 1..Len(ms) |-> MetricCells(ms[i])])

\* metrics.reduce((sum, m) => sum + m.field, 0)
RECURSIVE Reduce(_, _)
Reduce(ms, field) ==
    IF Len(ms) = 0 THEN 0 ELSE ms[1][field] + Reduce(Tail(ms), field)

AverageOfFirst(ms, field) ==
    IF Len(ms) > 0 THEN Fraction(ms[1][field], 1) ELSE Fraction(0, 1)

\* metrics.length > 0 ? metrics.reduce(...) / metrics.length : 0
Average(ms, field) ==
    IF Len(ms) > 0 THEN Fraction(Reduce(ms, field), Len(ms)) ELSE Fraction(0, 1)

\* JSON.stringify of a quotient: NaN and Infinity are written as null
JsonNumber(x) == IF x.den = 0 THEN [num |-> "null", den |-> 0] ELSE x

\* metricsToJSON without export_timestamp, which is the clock's
MetricsToJSON(ms) ==
    [export_type |-> "metrics_history",
     data_point_count |-> Len(ms),
     metrics |-> ms,
     summary |->
        [avg_hit_rate |-> JsonNumber(Average(ms, "hit_rate_percent")),
         avg_latency |-> JsonNumber(Average(ms, "avg_latency_us")),
         total_cache_hits |-> Reduce(ms, "cache_hits"),
         total_cache_misses |-> Reduce(ms, "cache_misses"),
         total_stale_hits |-> Reduce(ms, "stale_hits"),
         total_refresh_errors |-> Reduce(ms, "refresh_errors")]]

\* snapshots as Observability's onMessage builds them: new Date().toISOString()
\* and numbers, 0 where the message has none
MetricSnapshots ==
    {[timestamp |-> "2026-01-01T00:00:00.000Z", cache_hits |-> 10, cache_misses |-> 2,
      stale_hits |-> 1, hit_rate_percent |-> 83333, avg_latency_us |-> 340,
      p95_latency_us |-> 380, p99_latency_us |-> 610, refresh_errors |-> 0,
      cache_size |-> 5],
     [timestamp |-> "2026-01-01T00:00:01.000Z", cache_hits |-> 0, cache_misses |-> 0,
      stale_hits |-> 0, hit_rate_percent |-> 0, avg_latency_us |-> 0,
      p95_latency_us |-> 0, p99_latency_us |-> 0, refresh_errors |-> 0,
      cache_size |-> 0],
     [timestamp |-> "2026-01-01T00:00:02.000Z", cache_hits |-> 7, cache_misses |-> 7,
      stale_hits |-> 3, hit_rate_percent |-> 50005, avg_latency_us |-> 1234567,
      p95_latency_us |-> 2000000, p99_latency_us |-> 2000001, refresh_errors |-> 4,
      cache_size |-> 5]}

\* rows as handleExport builds them from results
ExportedRows ==
    {[symbol |-> "AAPL", cached_latency_us |-> 340, uncached_latency_us |-> 112310,
      speedup_factor |-> 330785000, p95_latency_us |-> 380, p99_latency_us |-> 610,
      sample_count |-> 1000, timestamp |-> "2026-01-01T00:00:00.000Z"],
     [symbol |-> "MSFT", cached_latency_us |-> 400, uncached_latency_us |-> 10000,
      speedup_factor |-> 25000499, p95_latency_us |-> 500, p99_latency_us |-> 500,
      sample_count |-> 500, timestamp |-> "2026-01-01T00:00:03.000Z"]}

NoJson == MetricsToJSON(<<>>)
NotExported == [fn |-> "none", csv |-> <<>>, json |-> NoJson]

InitExport ==
    /\ metrics \in UNION {[1..n -> MetricSnapshots] : n \in 0..MaxRecords}
    /\ benchResults \in UNION {[1..n -> ExportedRows] : n \in 0..MaxRecords}
    /\ exported = NotExported

InitExportIdle ==
    /\ metrics = <<>>
    /\ benchResults = <<>>
    /\ exported = NotExported

CallMetricsToCSV ==
    /\ exported = NotExported
    /\ exported' = [fn |-> "metricsToCSV", csv |-> MetricsToCSV(metrics), json |-> NoJson]
    /\ UNCHANGED <<metrics, benchResults>>

CallBenchmarkToCSV ==
    /\ exported = NotExported
    /\ exported' = [fn |-> "benchmarkToCSV", csv |-> BenchmarkToCSV(benchResults),
                    json |-> NoJson]
    /\ UNCHANGED <<metrics, benchResults>>

CallMetricsToJSON ==
    /\ exported = NotExported
    /\ exported' = [fn |-> "metricsToJSON", csv |-> <<>>, json |-> MetricsToJSON(metrics)]
    /\ UNCHANGED <<metrics, benchResults>>

\* new Date().toISOString(), for an instant of the first seconds of 2026
ToISOString(t) ==
    "2026-01-01T00:00:0" \o ToString(t \div 1000) \o "." \o Pad(t % 1000, 3) \o "Z"

\* metricsToJSON, export_timestamp included
MetricsToJSONAt(ms, t) ==
    [export_timestamp |-> ToISOString(t), data |-> MetricsToJSON(ms)]

\* exportMetricsHistory(metrics, format): the content handed to downloadFile
ExportContent(ms, format, t) ==
    IF format = "csv"
    THEN [format |-> format, csv |-> MetricsToCSV(ms), json |-> MetricsToJSONAt(<<>>, 0)]
    ELSE [format |-> format, csv |-> <<>>, json |-> MetricsToJSONAt(ms, t)]

InitRepeat ==
    /\ exportNow = 0
    /\ outputs = <<>>

\* handleExportMetrics(format) with a history that is not empty: the array
\* methods map and reduce leave the history as it is
ExportMetricsHistory(format) ==
    /\ Len(metrics) > 0
    /\ Len(outputs) < MaxExports
    /\ outputs' = Append(outputs, ExportContent(metrics, format, exportNow))
    /\ UNCHANGED <<metrics, benchResults, exported, exportNow>>

\* a millisecond passes
ClockAdvances ==
    /\ exportNow < MaxExportMillis
    /\ exportNow' = exportNow + 1
    /\ UNCHANGED <<metrics, benchResults, exported, outputs>>

\* Home: stats?.total_requests ?? 0
TotalRequests(stats) == IF stats.source = "none" THEN 0 ELSE stats.total_requests

\* Home: const isRealApi = totalRequests > 100
IsRealApi(stats) == TotalRequests(stats) > 100

\* useStats before the first answer: stats is null
InitHome ==
    /\ homeStats = NoStats
    /\ isRealApi = IsRealApi(NoStats)

\* useStats.fetchData after await fetchStats(): if (data) setStats(data); Home
\* renders again and its effect calls setIsRealApi(isRealApi)
StatsArrive ==
    /\ call.op = "fetchStats" /\ call.pc = "done"
    /\ result.kind = "resolved"
    /\ homeStats' = IF result.value.tag = "stats" THEN result.value.stats ELSE homeStats
    /\ isRealApi' = IsRealApi(homeStats')

BreakerStates == {"closed", "open", "half_open"}

\* useState<CircuitBreakerMetrics | null>(null)
NoMetrics == [state |-> "none", total_calls |-> 0, failed_calls |-> 0]

\* the status document of the upstream service with the breaker in state st
StatusPayload(st) ==
    [state |-> st, total_calls |-> 1200, failed_calls |-> IF st = "closed" THEN 0 ELSE 5]

\* getFallbackMetrics()
GetFallbackMetrics == [state |-> "closed", total_calls |-> 1000, failed_calls |-> 5]

InitBreaker ==
    /\ cbMetrics = NoMetrics
    /\ breaker = "closed"
    /\ reported = {}
    /\ cbFetch = "idle"
    /\ cbReset = "idle"

\* the breaker of the upstream service changes state on its own
UpstreamTransitions ==
    /\ \E st \in BreakerStates \ {breaker} : breaker' = st
    /\ UNCHANGED <<cbMetrics, reported, cbFetch, cbReset>>

\* the mount effect, or its interval of 3000 ms, calls fetchMetrics()
FetchMetricsStarts ==
    /\ cbFetch = "idle"
    /\ cbFetch' = "pending"
    /\ UNCHANGED <<cbMetrics, breaker, reported, cbReset>>

\* fetchMetrics: the try block runs to its end, setMetrics(data)
MetricsReceived ==
    /\ cbMetrics' = StatusPayload(breaker)
    /\ reported' = reported \cup {breaker}
    /\ UNCHANGED breaker

\* fetchMetrics: fetch rejects, is aborted after 5000 ms, answers with a status
\* that is not ok or with a body that is not JSON: the catch block
MetricsFailed ==
    /\ cbMetrics' = GetFallbackMetrics
    /\ UNCHANGED <<breaker, reported>>

FetchMetricsSucceeds ==
    /\ cbFetch = "pending"
    /\ MetricsReceived
    /\ cbFetch' = "idle"
    /\ UNCHANGED cbReset

FetchMetricsFails ==
    /\ cbFetch = "pending"
    /\ MetricsFailed
    /\ cbFetch' = "idle"
    /\ UNCHANGED cbReset

\* the Reset button, rendered while metrics.state === "open":
\* resetCircuitBreaker() up to the await of the POST
ResetStarts ==
    /\ cbMetrics.state = "open"
    /\ cbReset = "idle"
    /\ cbReset' = "pending"
    /\ UNCHANGED <<cbMetrics, breaker, reported, cbFetch>>

\* the POST is answered 2xx: the upstream closes its breaker and
\* resetCircuitBreaker awaits fetchMetrics()
ResetAccepted ==
    /\ cbReset = "pending"
    /\ breaker' = "closed"
    /\ cbReset' = "refetch"
    /\ UNCHANGED <<cbMetrics, reported, cbFetch>>

\* the POST rejects, is aborted or is answered with a status that is not ok:
\* the catch block only warns
ResetFails ==
    /\ cbReset = "pending"
    /\ cbReset' = "idle"
    /\ UNCHANGED <<cbMetrics, breaker, reported, cbFetch>>

\* the fetchMetrics() call of resetCircuitBreaker ends
RefetchSucceeds ==
    /\ cbReset = "refetch"
    /\ MetricsReceived
    /\ cbReset' = "idle"
    /\ UNCHANGED cbFetch

RefetchFails ==
    /\ cbReset = "refetch"
    /\ MetricsFailed
    /\ cbReset' = "idle"
    /\ UNCHANGED cbFetch

\* the utility functions as they are while another part is observed
IdleStats ==
    /\ latencies = <<>>
    /\ summary = NotCalled

InitUtilIdle == IdleStats /\ InitBench /\ InitQuoteIdle /\ InitExportIdle /\ InitRepeat /\ InitHome /\ InitBreaker

(***************************************************************************)
(* Specifications                                                          *)
(***************************************************************************)
\* fallbackDataCache = {} in getFallbackData: a new object receives the quotes
OverwriteCurrent(objs, content) == [objs EXCEPT ![Len(objs)] = content]
Allocate(objs, content) == Append(objs, content)

\* let fallbackDataCache = {}: the module starts with one empty object
InitHeap ==
    /\ objects = <<NoMap>>
    /\ held = {}

\* what a step of the fetch client does to the objects: a regeneration makes
\* a new one, and a mapping returned from getFallbackData is the current object
Heap ==
    /\ objects' = IF generations' # generations
                  THEN Allocate(objects, fallbackDataCache')
                  ELSE objects
    /\ held' = IF /\ result' # result
                  /\ result'.kind \in {"resolved", "returned"}
                  /\ result'.value.tag = "map"
                  /\ result'.value.map = fallbackDataCache'
                  /\ DOMAIN fallbackDataCache' # {}
               THEN held \cup {[obj |-> Len(objects'), map |-> result'.value.map]}
               ELSE held

\* no message has been handed to onMessage
InitDelivered == delivered = "none"

\* no disconnect() has returned yet
InitSurvivors == survivors = {}

\* the ids of the timers pending in ts
PendingIds(ts) == {ts[k].id : k \in 1..Len(ts)}

\* the stream client alone
Init == InitStream /\ InitSurvivors /\ InitDelivered /\ InitHeap /\ InitBuffer /\ InitFetch /\ InitPollIdle /\ InitUtilIdle

Next ==
    \/ EffectMount /\ UNCHANGED <<io, survivors, delivered, heapVars, bufferVars, fetchVars, pollVars, utilVars>>
    \/ Disconnect /\ UNCHANGED <<io, survivors, delivered, heapVars, bufferVars, fetchVars, pollVars, utilVars>>
    \/ /\ Len(chan) < MaxChannels
       /\ EffectRerun /\ UNCHANGED <<io, survivors, delivered, heapVars, bufferVars, fetchVars, pollVars, utilVars>>
    \/ \E c \in 1..Len(chan) : ChannelOpen(c) /\ UNCHANGED <<io, survivors, delivered, heapVars, bufferVars, fetchVars, pollVars, utilVars>>
    \/ \E c \in 1..Len(chan) : ChannelClose(c) /\ UNCHANGED <<io, survivors, delivered, heapVars, bufferVars, fetchVars, pollVars, utilVars>>
    \/ \E c \in 1..Len(chan) : ChannelError(c) /\ UNCHANGED <<io, survivors, delivered, heapVars, bufferVars, fetchVars, pollVars, utilVars>>
    \/ \E i \in 1..Len(timers) :
          /\ Len(chan) < MaxChannels
          /\ TimerFire(i) /\ UNCHANGED <<io, survivors, delivered, heapVars, bufferVars, fetchVars, pollVars, utilVars>>

Spec == Init /\ [][Next]_vars

\* the stream client with the payloads the caller sends and the messages the
\* channels receive
NextIO ==
    \/ EffectMount /\ io' = NoIo /\ UNCHANGED <<survivors, delivered, heapVars, bufferVars, fetchVars, pollVars, utilVars>>
    \/ Disconnect /\ io' = NoIo /\ UNCHANGED <<survivors, delivered, heapVars, bufferVars, fetchVars, pollVars, utilVars>>
    \/ /\ Len(chan) < MaxIoChannels
       /\ EffectRerun /\ io' = NoIo /\ UNCHANGED <<survivors, delivered, heapVars, bufferVars, fetchVars, pollVars, utilVars>>
    \/ \E c \in 1..Len(chan) :
          ChannelOpen(c) /\ io' = NoIo /\ UNCHANGED <<survivors, delivered, heapVars, bufferVars, fetchVars, pollVars, utilVars>>
    \/ \E c \in 1..Len(chan) :
          ChannelClose(c) /\ io' = NoIo /\ UNCHANGED <<survivors, delivered, heapVars, bufferVars, fetchVars, pollVars, utilVars>>
    \/ \E c \in 1..Len(chan) :
          ChannelError(c) /\ io' = NoIo /\ UNCHANGED <<survivors, delivered, heapVars, bufferVars, fetchVars, pollVars, utilVars>>
    \/ \E i \in 1..Len(timers) :
          /\ Len(chan) < MaxIoChannels
          /\ TimerFire(i) /\ io' = NoIo /\ UNCHANGED <<survivors, delivered, heapVars, bufferVars, fetchVars, pollVars, utilVars>>
    \/ Send /\ UNCHANGED <<survivors, delivered, heapVars, bufferVars, fetchVars, pollVars, utilVars>>
    \/ \E c \in 1..Len(chan) :
          ChannelMessage(c, TRUE) /\ UNCHANGED <<survivors, delivered, heapVars, bufferVars, fetchVars, pollVars, utilVars>>
    \/ \E c \in 1..Len(chan) :
          ChannelMessage(c, FALSE) /\ UNCHANGED <<survivors, delivered, heapVars, bufferVars, fetchVars, pollVars, utilVars>>

SpecIO == Init /\ [][NextIO]_vars

\* the stream client with the timers that outlive a disconnect(): disconnect()
\* is called by the caller and by the effect's cleanup
NextD ==
    \/ EffectMount /\ UNCHANGED <<io, survivors, delivered, heapVars, bufferVars, fetchVars, pollVars, utilVars>>
    \/ Disconnect /\ survivors' = PendingIds(timers')
         /\ UNCHANGED <<io, delivered, heapVars, bufferVars, fetchVars, pollVars, utilVars>>
    \/ /\ Len(chan) < MaxChannels
       /\ EffectRerun /\ survivors' = PendingIds(timers')
         /\ UNCHANGED <<io, delivered, heapVars, bufferVars, fetchVars, pollVars, utilVars>>
    \/ \E c \in 1..Len(chan) :
          ChannelOpen(c) /\ UNCHANGED <<io, survivors, delivered, heapVars, bufferVars, fetchVars, pollVars, utilVars>>
    \/ \E c \in 1..Len(chan) :
          ChannelClose(c) /\ UNCHANGED <<io, survivors, delivered, heapVars, bufferVars, fetchVars, pollVars, utilVars>>
    \/ \E c \in 1..Len(chan) :
          ChannelError(c) /\ UNCHANGED <<io, survivors, delivered, heapVars, bufferVars, fetchVars, pollVars, utilVars>>
    \/ \E i \in 1..Len(timers) :
          /\ Len(chan) < MaxChannels
          /\ TimerFire(i) /\ UNCHANGED <<io, survivors, delivered, heapVars, bufferVars, fetchVars, pollVars, utilVars>>

SpecDisconnect == Init /\ [][NextD]_vars

\* Observability: the stream client with the page's onMessage as its callback;
\* metricsHistory is state of the page, which the stream client never writes
NextO ==
    \/ EffectMount /\ io' = NoIo /\ delivered' = "none"
         /\ UNCHANGED <<survivors, heapVars, bufferVars, fetchVars, pollVars, utilVars>>
    \/ Disconnect /\ io' = NoIo /\ delivered' = "none"
         /\ UNCHANGED <<survivors, heapVars, bufferVars, fetchVars, pollVars, utilVars>>
    \/ /\ Len(chan) < MaxIoChannels
       /\ EffectRerun /\ io' = NoIo /\ delivered' = "none"
       /\ UNCHANGED <<survivors, heapVars, bufferVars, fetchVars, pollVars, utilVars>>
    \/ \E c \in 1..Len(chan) :
          ChannelOpen(c) /\ io' = NoIo /\ delivered' = "none"
            /\ UNCHANGED <<survivors, heapVars, bufferVars, fetchVars, pollVars, utilVars>>
    \/ \E c \in 1..Len(chan) :
          ChannelClose(c) /\ io' = NoIo /\ delivered' = "none"
            /\ UNCHANGED <<survivors, heapVars, bufferVars, fetchVars, pollVars, utilVars>>
    \/ \E c \in 1..Len(chan) :
          ChannelError(c) /\ io' = NoIo /\ delivered' = "none"
            /\ UNCHANGED <<survivors, heapVars, bufferVars, fetchVars, pollVars, utilVars>>
    \/ \E i \in 1..Len(timers) :
          /\ Len(chan) < MaxIoChannels
          /\ TimerFire(i) /\ io' = NoIo /\ delivered' = "none"
          /\ UNCHANGED <<survivors, heapVars, bufferVars, fetchVars, pollVars, utilVars>>
    \/ \E c \in 1..Len(chan), kind \in MessageKinds :
          /\ kind = "stats" => appended < MaxObsAppends
          /\ ChannelMessage(c, TRUE) /\ ObsOnMessage(kind) /\ delivered' = kind
          /\ UNCHANGED <<survivors, heapVars, fetchVars, pollVars, utilVars>>
    \/ \E c \in 1..Len(chan) :
          ChannelMessage(c, FALSE) /\ delivered' = "none"
            /\ UNCHANGED <<survivors, heapVars, bufferVars, fetchVars, pollVars, utilVars>>

SpecObservability == Init /\ [][NextO]_vars

\* the stream client with room for the channels of two reconnect chains
NextC ==
    \/ EffectMount /\ UNCHANGED <<io, survivors, delivered, heapVars, bufferVars, fetchVars, pollVars, utilVars>>
    \/ Disconnect /\ UNCHANGED <<io, survivors, delivered, heapVars, bufferVars, fetchVars, pollVars, utilVars>>
    \/ /\ Len(chan) < MaxCounterChannels
       /\ EffectRerun /\ UNCHANGED <<io, survivors, delivered, heapVars, bufferVars, fetchVars, pollVars, utilVars>>
    \/ \E c \in 1..Len(chan) :
          ChannelOpen(c) /\ UNCHANGED <<io, survivors, delivered, heapVars, bufferVars, fetchVars, pollVars, utilVars>>
    \/ \E c \in 1..Len(chan) :
          ChannelClose(c) /\ UNCHANGED <<io, survivors, delivered, heapVars, bufferVars, fetchVars, pollVars, utilVars>>
    \/ \E c \in 1..Len(chan) :
          ChannelError(c) /\ UNCHANGED <<io, survivors, delivered, heapVars, bufferVars, fetchVars, pollVars, utilVars>>
    \/ \E i \in 1..Len(timers) :
          /\ Len(chan) < MaxCounterChannels
          /\ TimerFire(i) /\ UNCHANGED <<io, survivors, delivered, heapVars, bufferVars, fetchVars, pollVars, utilVars>>

SpecCounter == Init /\ [][NextC]_vars

\* the stream client in a browser that runs the effect, delivers the events of
\* every channel and fires every timer
ChannelSettles ==
    \E c \in 1..Len(chan) :
       (ChannelOpen(c) \/ ChannelClose(c) \/ ChannelError(c))
         /\ UNCHANGED <<io, survivors, delivered, heapVars, bufferVars, fetchVars, pollVars, utilVars>>

TimerElapses ==
    \E i \in 1..Len(timers) :
       Len(chan) < MaxChannels /\ TimerFire(i) /\ UNCHANGED <<io, survivors, delivered, heapVars, bufferVars, fetchVars, pollVars, utilVars>>

EffectRuns == EffectMount /\ UNCHANGED <<io, survivors, delivered, heapVars, bufferVars, fetchVars, pollVars, utilVars>>

SpecStreamFair ==
    /\ Init
    /\ [][Next]_vars
    /\ WF_vars(EffectRuns)
    /\ WF_vars(ChannelSettles)
    /\ WF_vars(TimerElapses)

\* the metrics history alone, fed one parsed message at a time
InitB == InitStream /\ InitSurvivors /\ InitDelivered /\ InitHeap /\ urlOk /\ InitBuffer /\ InitFetch /\ InitPollIdle /\ InitUtilIdle

NextB ==
    \/ ObsOnMessage("stats") /\ UNCHANGED <<streamVars, io, survivors, delivered, heapVars, fetchVars, pollVars, utilVars>>
    \/ ObsOnMessage("statsNoData") /\ UNCHANGED <<streamVars, io, survivors, delivered, heapVars, fetchVars, pollVars, utilVars>>
    \/ ObsOnMessage("other") /\ UNCHANGED <<streamVars, io, survivors, delivered, heapVars, fetchVars, pollVars, utilVars>>
    \/ ObsOnMessage("null") /\ UNCHANGED <<streamVars, io, survivors, delivered, heapVars, fetchVars, pollVars, utilVars>>

SpecBuffer == InitB /\ [][NextB]_vars

\* the fetch client alone: one call at a time against an upstream that answers
\* in any way, or not at all
InitF == InitStream /\ InitSurvivors /\ InitDelivered /\ InitHeap /\ urlOk /\ InitBuffer /\ InitFetch /\ InitPollIdle /\ InitUtilIdle

NextF ==
    \/ \E sym \in CallerSymbols : StartCall("fetchPrice", sym) /\ UNCHANGED <<streamVars, io, survivors, delivered, heapVars, bufferVars, pollVars, utilVars>>
    \/ StartCall("fetchAllPrices", "") /\ UNCHANGED <<streamVars, io, survivors, delivered, heapVars, bufferVars, pollVars, utilVars>>
    \/ StartCall("fetchStats", "") /\ UNCHANGED <<streamVars, io, survivors, delivered, heapVars, bufferVars, pollVars, utilVars>>
    \/ FetchRejects /\ UNCHANGED <<streamVars, io, survivors, delivered, heapVars, bufferVars, pollVars, utilVars>>
    \/ FetchTimeout /\ UNCHANGED <<streamVars, io, survivors, delivered, heapVars, bufferVars, pollVars, utilVars>>
    \/ RespondsNotOk /\ UNCHANGED <<streamVars, io, survivors, delivered, heapVars, bufferVars, pollVars, utilVars>>
    \/ RespondsOk /\ UNCHANGED <<streamVars, io, survivors, delivered, heapVars, bufferVars, pollVars, utilVars>>
    \/ BodyUnparseable /\ UNCHANGED <<streamVars, io, survivors, delivered, heapVars, bufferVars, pollVars, utilVars>>
    \/ \E body \in BodiesOf(call.op) : BodyParsed(body) /\ UNCHANGED <<streamVars, io, survivors, delivered, heapVars, bufferVars, pollVars, utilVars>>
    \/ Tick /\ UNCHANGED <<streamVars, io, survivors, delivered, heapVars, bufferVars, pollVars, utilVars>>

SpecFetch == InitF /\ [][NextF]_vars

\* the timer of AbortSignal.timeout fires once it is due; the upstream owes
\* nothing
SpecFetchFair ==
    InitF /\ [][NextF]_vars /\ WF_vars(FetchTimeout /\ UNCHANGED <<streamVars, io, survivors, delivered, heapVars, bufferVars, pollVars, utilVars>>)

\* the fallback synthesizer alone, called with either argument at any time
NextG ==
    \/ CallGetFallbackData(TRUE) /\ UNCHANGED <<streamVars, io, survivors, delivered, heapVars, bufferVars, pollVars, utilVars>>
    \/ CallGetFallbackData(FALSE) /\ UNCHANGED <<streamVars, io, survivors, delivered, heapVars, bufferVars, pollVars, utilVars>>
    \/ Tick /\ UNCHANGED <<streamVars, io, survivors, delivered, heapVars, bufferVars, pollVars, utilVars>>

SpecFallback == InitF /\ [][NextG]_vars

\* calculateStats alone, applied to a sequence of latencies
InitS ==
    InitStream /\ InitSurvivors /\ InitDelivered /\ InitHeap /\ urlOk /\ InitBuffer /\ InitFetch /\ InitPollIdle /\ InitStats /\ InitBench
      /\ InitQuoteIdle /\ InitExportIdle /\ InitRepeat /\ InitHome /\ InitBreaker

NextS ==
    \/ Summarize /\ UNCHANGED <<streamVars, io, survivors, delivered, heapVars, bufferVars, fetchVars, pollVars, benchVars, quoteVars, exportVars, repeatVars, homeVars, breakerVars>>

SpecStats == InitS /\ [][NextS]_vars

\* the fetch client and getFallbackData with the objects behind the mappings
NextH ==
    \/ \E sym \in CallerSymbols :
          StartCall("fetchPrice", sym) /\ Heap
            /\ UNCHANGED <<streamVars, io, survivors, delivered, bufferVars, pollVars, utilVars>>
    \/ StartCall("fetchAllPrices", "") /\ Heap
         /\ UNCHANGED <<streamVars, io, survivors, delivered, bufferVars, pollVars, utilVars>>
    \/ StartCall("fetchStats", "") /\ Heap
         /\ UNCHANGED <<streamVars, io, survivors, delivered, bufferVars, pollVars, utilVars>>
    \/ FetchRejects /\ Heap
         /\ UNCHANGED <<streamVars, io, survivors, delivered, bufferVars, pollVars, utilVars>>
    \/ FetchTimeout /\ Heap
         /\ UNCHANGED <<streamVars, io, survivors, delivered, bufferVars, pollVars, utilVars>>
    \/ RespondsNotOk /\ Heap
         /\ UNCHANGED <<streamVars, io, survivors, delivered, bufferVars, pollVars, utilVars>>
    \/ RespondsOk /\ Heap
         /\ UNCHANGED <<streamVars, io, survivors, delivered, bufferVars, pollVars, utilVars>>
    \/ BodyUnparseable /\ Heap
         /\ UNCHANGED <<streamVars, io, survivors, delivered, bufferVars, pollVars, utilVars>>
    \/ \E body \in BodiesOf(call.op) :
          BodyParsed(body) /\ Heap
            /\ UNCHANGED <<streamVars, io, survivors, delivered, bufferVars, pollVars, utilVars>>
    \/ Tick /\ Heap
         /\ UNCHANGED <<streamVars, io, survivors, delivered, bufferVars, pollVars, utilVars>>

SpecCache == InitF /\ [][NextH]_vars

\* the benchmark page alone
NextBench ==
    \/ RunBenchmarkStarts
         /\ UNCHANGED <<streamVars, io, survivors, delivered, heapVars, bufferVars, fetchVars, pollVars, statsVars, quoteVars, exportVars, repeatVars, homeVars, breakerVars>>
    \/ \E c \in CachedRuns, u \in UncachedRuns :
          MeasureSymbol(c, u)
            /\ UNCHANGED <<streamVars, io, survivors, delivered, heapVars, bufferVars, fetchVars, pollVars, statsVars, quoteVars, exportVars, repeatVars, homeVars, breakerVars>>
    \/ RunBenchmarkEnds
         /\ UNCHANGED <<streamVars, io, survivors, delivered, heapVars, bufferVars, fetchVars, pollVars, statsVars, quoteVars, exportVars, repeatVars, homeVars, breakerVars>>
    \/ Reset /\ UNCHANGED <<streamVars, io, survivors, delivered, heapVars, bufferVars, fetchVars, pollVars, statsVars, quoteVars, exportVars, repeatVars, homeVars, breakerVars>>
    \/ Export /\ UNCHANGED <<streamVars, io, survivors, delivered, heapVars, bufferVars, fetchVars, pollVars, statsVars, quoteVars, exportVars, repeatVars, homeVars, breakerVars>>

SpecBench == InitF /\ [][NextBench]_vars

\* generateFallbackPriceData alone, applied to a symbol and the random draws
InitQ ==
    InitStream /\ InitSurvivors /\ InitDelivered /\ InitHeap /\ urlOk /\ InitBuffer /\ InitFetch /\ InitPollIdle /\ IdleStats /\ InitBench
      /\ InitQuote /\ InitExportIdle /\ InitRepeat /\ InitHome /\ InitBreaker

NextQ ==
    \/ Generate
         /\ UNCHANGED <<streamVars, io, survivors, delivered, heapVars, bufferVars, fetchVars, pollVars, statsVars, benchVars, exportVars, repeatVars, homeVars, breakerVars>>

SpecQuote == InitQ /\ [][NextQ]_vars

\* the export functions alone, applied to arrays of records
InitE ==
    InitStream /\ InitSurvivors /\ InitDelivered /\ InitHeap /\ urlOk /\ InitBuffer /\ InitFetch /\ InitPollIdle /\ IdleStats /\ InitBench
      /\ InitQuoteIdle /\ InitExport /\ InitRepeat /\ InitHome /\ InitBreaker

NextE ==
    \/ CallMetricsToCSV
         /\ UNCHANGED <<streamVars, io, survivors, delivered, heapVars, bufferVars, fetchVars, pollVars, statsVars, benchVars,
                        quoteVars, repeatVars, homeVars, breakerVars>>
    \/ CallBenchmarkToCSV
         /\ UNCHANGED <<streamVars, io, survivors, delivered, heapVars, bufferVars, fetchVars, pollVars, statsVars, benchVars,
                        quoteVars, repeatVars, homeVars, breakerVars>>
    \/ CallMetricsToJSON
         /\ UNCHANGED <<streamVars, io, survivors, delivered, heapVars, bufferVars, fetchVars, pollVars, statsVars, benchVars,
                        quoteVars, repeatVars, homeVars, breakerVars>>

SpecExport == InitE /\ [][NextE]_vars

\* the metrics history exported repeatedly while the clock runs
NextR ==
    \/ ExportMetricsHistory("csv")
         /\ UNCHANGED <<streamVars, io, survivors, delivered, heapVars, bufferVars, fetchVars,
                        pollVars, statsVars, benchVars, quoteVars, homeVars, breakerVars>>
    \/ ExportMetricsHistory("json")
         /\ UNCHANGED <<streamVars, io, survivors, delivered, heapVars, bufferVars, fetchVars,
                        pollVars, statsVars, benchVars, quoteVars, homeVars, breakerVars>>
    \/ ClockAdvances
         /\ UNCHANGED <<streamVars, io, survivors, delivered, heapVars, bufferVars, fetchVars,
                        pollVars, statsVars, benchVars, quoteVars, homeVars, breakerVars>>

SpecRepeat == InitE /\ [][NextR]_vars

\* the Home page: useStats calls fetchStats and the page shows what it returns
NextHome ==
    \/ StartCall("fetchStats", "") /\ UNCHANGED <<streamVars, io, survivors, delivered, heapVars, bufferVars, pollVars, utilVars>>
    \/ FetchRejects /\ UNCHANGED <<streamVars, io, survivors, delivered, heapVars, bufferVars, pollVars, utilVars>>
    \/ FetchTimeout /\ UNCHANGED <<streamVars, io, survivors, delivered, heapVars, bufferVars, pollVars, utilVars>>
    \/ RespondsNotOk /\ UNCHANGED <<streamVars, io, survivors, delivered, heapVars, bufferVars, pollVars, utilVars>>
    \/ RespondsOk /\ UNCHANGED <<streamVars, io, survivors, delivered, heapVars, bufferVars, pollVars, utilVars>>
    \/ BodyUnparseable /\ UNCHANGED <<streamVars, io, survivors, delivered, heapVars, bufferVars, pollVars, utilVars>>
    \/ \E body \in BodiesOf(call.op) : BodyParsed(body) /\ UNCHANGED <<streamVars, io, survivors, delivered, heapVars, bufferVars, pollVars, utilVars>>
    \/ StatsArrive
         /\ UNCHANGED <<streamVars, io, survivors, delivered, heapVars, bufferVars, fetchVars,
                        pollVars, statsVars, benchVars, quoteVars, exportVars, repeatVars, breakerVars>>

SpecHome == InitF /\ [][NextHome]_vars

\* the circuit-breaker panel against an upstream that answers or fails
NextCB ==
    \/ UpstreamTransitions
         /\ UNCHANGED <<streamVars, io, survivors, delivered, heapVars, bufferVars, fetchVars,
                        pollVars, statsVars, benchVars, quoteVars, exportVars, repeatVars,
                        homeVars>>
    \/ FetchMetricsStarts
         /\ UNCHANGED <<streamVars, io, survivors, delivered, heapVars, bufferVars, fetchVars,
                        pollVars, statsVars, benchVars, quoteVars, exportVars, repeatVars,
                        homeVars>>
    \/ FetchMetricsSucceeds
         /\ UNCHANGED <<streamVars, io, survivors, delivered, heapVars, bufferVars, fetchVars,
                        pollVars, statsVars, benchVars, quoteVars, exportVars, repeatVars,
                        homeVars>>
    \/ FetchMetricsFails
         /\ UNCHANGED <<streamVars, io, survivors, delivered, heapVars, bufferVars, fetchVars,
                        pollVars, statsVars, benchVars, quoteVars, exportVars, repeatVars,
                        homeVars>>
    \/ ResetStarts
         /\ UNCHANGED <<streamVars, io, survivors, delivered, heapVars, bufferVars, fetchVars,
                        pollVars, statsVars, benchVars, quoteVars, exportVars, repeatVars,
                        homeVars>>
    \/ ResetAccepted
         /\ UNCHANGED <<streamVars, io, survivors, delivered, heapVars, bufferVars, fetchVars,
                        pollVars, statsVars, benchVars, quoteVars, exportVars, repeatVars,
                        homeVars>>
    \/ ResetFails
         /\ UNCHANGED <<streamVars, io, survivors, delivered, heapVars, bufferVars, fetchVars,
                        pollVars, statsVars, benchVars, quoteVars, exportVars, repeatVars,
                        homeVars>>
    \/ RefetchSucceeds
         /\ UNCHANGED <<streamVars, io, survivors, delivered, heapVars, bufferVars, fetchVars,
                        pollVars, statsVars, benchVars, quoteVars, exportVars, repeatVars,
                        homeVars>>
    \/ RefetchFails
         /\ UNCHANGED <<streamVars, io, survivors, delivered, heapVars, bufferVars, fetchVars,
                        pollVars, statsVars, benchVars, quoteVars, exportVars, repeatVars,
                        homeVars>>

SpecBreaker == InitF /\ [][NextCB]_vars

\* usePrice alone, against an upstream that answers each request in any way,
\* at any time
InitP == InitStream /\ InitSurvivors /\ InitDelivered /\ InitHeap /\ urlOk /\ InitBuffer /\ InitFetch /\ InitPoll /\ hook = "usePrice" /\ InitUtilIdle

NextP ==
    \/ PollMount /\ UNCHANGED <<streamVars, io, survivors, delivered, heapVars, bufferVars, utilVars>>
    \/ IntervalFires /\ UNCHANGED <<streamVars, io, survivors, delivered, heapVars, bufferVars, utilVars>>
    \/ \E sym \in PollSymbols : Retarget(sym) /\ UNCHANGED <<streamVars, io, survivors, delivered, heapVars, bufferVars, utilVars>>
    \/ PollUnmount /\ UNCHANGED <<streamVars, io, survivors, delivered, heapVars, bufferVars, utilVars>>
    \/ \E r \in 1..Len(requests) : RequestSucceeds(r) /\ UNCHANGED <<streamVars, io, survivors, delivered, heapVars, bufferVars, utilVars>>
    \/ \E r \in 1..Len(requests) : RequestFails(r) /\ UNCHANGED <<streamVars, io, survivors, delivered, heapVars, bufferVars, utilVars>>
    \/ \E r \in 1..Len(requests) : RequestTimesOut(r) /\ UNCHANGED <<streamVars, io, survivors, delivered, heapVars, bufferVars, utilVars>>
    \/ Elapse /\ UNCHANGED <<streamVars, io, survivors, delivered, heapVars, bufferVars, utilVars>>

SpecUsePrice == InitP /\ [][NextP]_vars

\* usePrices alone: it has no prop that re-runs the effect, and fetchAllPrices
\* passes no timeout signal
InitPs == InitStream /\ InitSurvivors /\ InitDelivered /\ InitHeap /\ urlOk /\ InitBuffer /\ InitFetch /\ InitPoll /\ hook = "usePrices" /\ InitUtilIdle

NextPs ==
    \/ PollMount /\ UNCHANGED <<streamVars, io, survivors, delivered, heapVars, bufferVars, utilVars>>
    \/ IntervalFires /\ UNCHANGED <<streamVars, io, survivors, delivered, heapVars, bufferVars, utilVars>>
    \/ PollUnmount /\ UNCHANGED <<streamVars, io, survivors, delivered, heapVars, bufferVars, utilVars>>
    \/ \E r \in 1..Len(requests) : RequestSucceeds(r) /\ UNCHANGED <<streamVars, io, survivors, delivered, heapVars, bufferVars, utilVars>>
    \/ \E r \in 1..Len(requests) : RequestFails(r) /\ UNCHANGED <<streamVars, io, survivors, delivered, heapVars, bufferVars, utilVars>>
    \/ Elapse /\ UNCHANGED <<streamVars, io, survivors, delivered, heapVars, bufferVars, utilVars>>

SpecUsePrices == InitPs /\ [][NextPs]_vars

(***************************************************************************)
(* Type invariants                                                         *)
(***************************************************************************)
TypeOKStream ==
    /\ urlOk \in BOOLEAN /\ mounted \in BOOLEAN /\ isConnected \in BOOLEAN
    /\ \A c \in 1..Len(chan) : chan[c] \in ChannelStates
    /\ Len(chan) <= MaxChannels /\ Len(onCloseCalls) = Len(chan)
    /\ wsRef \in 0..Len(chan)
    /\ reconnectAttempts \in Nat
    /\ reconnectTimeoutRef \in 0..timersSet
    /\ \A i \in 1..Len(timers) : timers[i].id \in 1..timersSet
    /\ lastError \in {NoError, ErrConnection, ErrMaxAttempts, ErrCreate}
    /\ callerActs \in 0..MaxCallerActs
    /\ io.kind \in {"none", "sent", "refused", "wellFormed", "malformed"}
    /\ io.chan \in 0..Len(chan)

TypeOKBuffer ==
    /\ appended \in 0..MaxAppends
    /\ streamStats \in {"null", "undefined", "payload"}
    /\ \A i \in 1..Len(metricsHistory) : metricsHistory[i].timestamp \in 1..appended

TypeOKFetch ==
    /\ result.kind \in ResultKinds
    /\ call.pc \in {"idle", "fetching", "body", "done"}
    /\ call.op \in {"none", "fetchPrice", "fetchAllPrices", "fetchStats", "getFallbackData"}
    /\ DOMAIN fallbackDataCache \in {{}, FallbackSymbols}
    /\ lastFallbackUpdate <= now
    /\ ncalls \in 0..MaxSynthCalls

TypeOKPoll ==
    /\ hook \in PollHooks /\ pollSymbol \in PollSymbols
    /\ pollPc \in {"init", "mounted", "unmounted"}
    /\ loading \in BOOLEAN /\ pollError \in {"null", "failed"}
    /\ price.req \in 0..Len(requests) /\ arrived \in 0..Len(requests)
    /\ Len(requests) <= MaxRequests
    /\ \A r \in 1..Len(requests) :
          /\ requests[r].pc \in {"fetching", "live", "failed", "timeout"}
          /\ requests[r].epoch \in 1..epoch
          /\ requests[r].start <= now
    /\ now <= MaxPollSeconds * 1000

(***************************************************************************)
(* Stream client: properties                                               *)
(***************************************************************************)
\* a step in which channel c receives its close event
Closes(c) == chan[c] # "closed" /\ chan'[c] = "closed"
\* a step in which channel c is established
Opens(c) == chan[c] = "connecting" /\ chan'[c] = "open"
\* a step that sets a reconnect timer
SetsTimer == timersSet' = timersSet + 1

\* C1: after disconnect() no automatic reconnection ever happens: as long as the
\* caller has not connected again, no reconnect timer is set, none fires, no
\* channel is created and isConnected stays false.
C1_NoReconnectAfterDisconnect ==
    [][(disconnected /\ disconnected') =>
          /\ ~SetsTimer
          /\ ~(\E i \in 1..Len(timers) : TimerFire(i))
          /\ Len(chan') = Len(chan)
          /\ ~isConnected']_vars

\* the delays spec section 8 lists for attempts 0..4
C2_DelayTable == <<3000, 6000, 12000, 24000, 48000>>

\* C2: with baseInterval 3000 and maxReconnectAttempts 5, when every connection
\* attempt fails (no channel is ever established, the caller does not act), the
\* k-th reconnect timer is set with delay 3000, 6000, 12000, 24000, 48000 for
\* k = 1..5 and no 6th timer is set.
C2_BackoffSequence ==
    (callerActs = 0 /\ ~everOpened) =>
        /\ timersSet <= 5
        /\ timersSet > 0 => lastDelay = C2_DelayTable[timersSet]
        /\ Len(chan) <= 6
C2_Witness ==
    /\ callerActs = 0 /\ ~everOpened
    /\ timersSet = 5 /\ lastDelay = 48000
    /\ Len(chan) = 6 /\ chan[6] = "closed"
    /\ timers = <<>>
    /\ lastError = ErrMaxAttempts

\* C3: when a channel closes while the attempt counter equals
\* maxReconnectAttempts, that close sets no reconnect timer and sets lastError to
\* "Max reconnection attempts reached", and from then on, as long as the caller
\* does not act, the client stays closed: isConnected stays false, no timer is
\* set or fires and no channel is created.
C3_TerminalState ==
    [][/\ \A c \in 1..Len(chan) :
             (Closes(c) /\ reconnectAttempts = maxReconnectAttempts) =>
                 /\ ~SetsTimer
                 /\ lastError' = ErrMaxAttempts
                 /\ ~isConnected'
       /\ (exhausted /\ exhausted') =>
             /\ ~isConnected'
             /\ ~SetsTimer
             /\ Len(chan') = Len(chan)]_vars

\* C4: every establishment of a channel resets the attempt counter to 0, sets
\* isConnected, clears lastError and calls onOpen exactly once; and the first
\* reconnect timer set after an establishment has delay baseInterval.
C4_OpenResetsBackoff ==
    [][/\ \A c \in 1..Len(chan) :
             Opens(c) =>
                 /\ reconnectAttempts' = 0
                 /\ isConnected'
                 /\ lastError' = NoError
                 /\ calls' = <<"onOpen">>
       /\ (sinceOpen /\ SetsTimer) => lastDelay' = reconnectInterval]_vars

\* C5: when an open channel is closed by the remote side or by a transport
\* error, isConnected becomes false and onClose is called once in that step;
\* onClose is called exactly once per channel, for its close event.
C5_CloseLeavesOpen ==
    /\ [](\A c \in 1..Len(chan) :
             onCloseCalls[c] = IF chan[c] = "closed" THEN 1 ELSE 0)
    /\ [][\A c \in 1..Len(chan) :
             (chan[c] = "open" /\ Closes(c)) =>
                 /\ ~isConnected'
                 /\ calls' = <<"onClose">>
                 /\ onCloseCalls'[c] = 1]_vars
C5_Witness ==
    /\ callerActs = 0 /\ everOpened
    /\ Len(chan) = 1 /\ chan[1] = "closed"
    /\ ~isConnected
    /\ calls = <<"onClose">>
    /\ lastError = ErrConnection

\* C19: send(payload) transmits the payload only when the current channel is
\* open; in every other state (connecting, closing, closed, after disconnect, no
\* channel) it transmits nothing and keeps nothing: the state of the hook is as
\* it was, and no later step transmits (an open does not).
C19_SendOnlyWhenOpen ==
    [][/\ io'.kind \in {"sent", "refused"} =>
             /\ (io'.kind = "sent") <=> (wsRef # 0 /\ chan[wsRef] = "open")
             /\ io'.kind = "sent" => io'.chan = wsRef
             /\ UNCHANGED <<chan, wsRef, reconnectAttempts, reconnectTimeoutRef, timers,
                            isConnected, lastError>>
       /\ (\E c \in 1..Len(chan) : Opens(c)) => io'.kind = "none"]_vars
\* a payload was refused while the channel was connecting, the channel opened
\* since, and nothing was transmitted
C19_Witness ==
    /\ callerActs = 1 /\ io.kind = "none"
    /\ Len(chan) = 1 /\ chan[1] = "open" /\ wsRef = 1
    /\ isConnected

\* C20: an inbound message that cannot be parsed is dropped: onMessage is not
\* called for it and the channel, isConnected, lastError and the attempt counter
\* are unchanged, so a later well-formed message on the same channel is
\* delivered to onMessage.
C20_MalformedDropped ==
    [][/\ io'.kind = "malformed" =>
             /\ calls' = <<>>
             /\ UNCHANGED <<chan, wsRef, isConnected, lastError, reconnectAttempts,
                            reconnectTimeoutRef, timers>>
             /\ chan'[io'.chan] = "open"
       /\ io'.kind = "wellFormed" => calls' = <<"onMessage">>]_vars
C20_Witness ==
    /\ io.kind = "wellFormed" /\ io.afterDrop
    /\ calls = <<"onMessage">>
    /\ chan[io.chan] = "open" /\ isConnected /\ lastError = NoError

(***************************************************************************)
(* Metrics history: properties                                             *)
(***************************************************************************)
Min(a, b) == IF a <= b THEN a ELSE b

\* C6: the metrics history never holds more than 100 snapshots.
C6_HistoryBounded == Len(metricsHistory) <= 100
C6_Witness == Len(metricsHistory) = 100 /\ appended > 100

\* C7: the metrics history is strict FIFO: after n appends it holds exactly the
\* last min(n, 100) appended snapshots in insertion order; after 150 appends its
\* size is 100 and its first element is the 51st appended snapshot.
C7_HistoryFifo ==
    /\ Len(metricsHistory) = Min(appended, 100)
    /\ \A i \in 1..Len(metricsHistory) :
          metricsHistory[i] = Snapshot(appended - Len(metricsHistory) + i)
C7_Witness ==
    /\ appended = 150
    /\ Len(metricsHistory) = 100
    /\ metricsHistory[1] = Snapshot(51)
    /\ metricsHistory[100] = Snapshot(150)

(***************************************************************************)
(* Fetch client: properties                                                *)
(***************************************************************************)
\* the symbols of a value
Symbols(v) == DOMAIN v.map
\* every quote of a value has the given source
AllFrom(v, source) == \A k \in DOMAIN v.map : v.map[k].source = source

\* the fallback value of an operation: for fetchPrice a quote of the fallback
\* synthesizer or null, for fetchAllPrices the full fallback mapping, for
\* fetchStats the synthetic statistics
IsFallbackValue(op, v) ==
    CASE op = "fetchPrice" ->
            v.tag = "null" \/ (v.tag = "quote" /\ AllFrom(v, "fallback"))
      [] op = "fetchAllPrices" ->
            v.tag = "map" /\ Symbols(v) = FallbackSymbols /\ AllFrom(v, "fallback")
      [] op = "fetchStats" ->
            v.tag = "stats" /\ v.stats.source = "synthetic"
      [] OTHER -> FALSE

\* C8: fetchPrice, fetchAllPrices and fetchStats never reject, and for every
\* failure of the upstream call (non-success status, network exception, timeout,
\* unparseable or mis-shaped body) the promise resolves to a fallback value.
C8_FailuresResolveToFallback ==
    /\ result.kind # "rejected"
    /\ call.pc = "done" =>
          /\ result.kind = "resolved"
          /\ call.failure # "none" => IsFallbackValue(call.op, result.value)

\* C9: fetchAllPrices never returns a partial mapping: the symbols of its result
\* are all those of the live response (each quote live) or all the fallback
\* symbols (the fallback mapping itself); a response with a malformed entry
\* yields the full fallback mapping.
C9_NoPartialMapping ==
    (call.op = "fetchAllPrices" /\ call.pc = "done") =>
        /\ result.kind = "resolved"
        /\ \/ /\ Symbols(result.value) = DOMAIN call.body.entries
              /\ AllFrom(result.value, "live")
           \/ /\ Symbols(result.value) = {"AAPL", "MSFT", "GOOGL", "AMZN", "TSLA"}
              /\ result.value.map = fallbackDataCache
              /\ AllFrom(result.value, "fallback")
        /\ (\E k \in DOMAIN call.body.entries : call.body.entries[k] = "bad") =>
              Symbols(result.value) = {"AAPL", "MSFT", "GOOGL", "AMZN", "TSLA"}
C9_Witness ==
    /\ call.op = "fetchAllPrices" /\ call.pc = "done"
    /\ DOMAIN call.body.entries = {"AAPL", "MSFT", "NVDA"}
    /\ call.body.entries["AAPL"] = "quote"
    /\ call.body.entries["MSFT"] = "bad"
    /\ result.value.map = fallbackDataCache
    /\ Symbols(result.value) = FallbackSymbols

\* C10: every call of fetchPrice, fetchAllPrices and fetchStats eventually
\* settles, even when the upstream never responds.
C10_EveryCallSettles ==
    (call.pc \in {"fetching", "body"}) ~> (call.pc = "done")

\* a step that is a call of getFallbackData
CallsSynth == call'.op = "getFallbackData" /\ ncalls' = ncalls + 1

\* C13: getFallbackData regenerates its mapping exactly when forceRefresh is
\* set, or the cache is empty, or more than 2000 ms have passed since the last
\* generation; every other call returns the mapping generated before, unchanged,
\* so calls within the freshness window (also at the same instant) observe the
\* same generation.
C13_RegeneratesExactlyWhenStale ==
    [][CallsSynth =>
          LET stale == \/ call'.forceRefresh
                       \/ DOMAIN fallbackDataCache = {}
                       \/ now - lastFallbackUpdate > 2000
          IN /\ (generations' = generations + 1) <=> stale
             /\ result'.value.map = fallbackDataCache'
             /\ \A k \in DOMAIN fallbackDataCache' :
                   fallbackDataCache'[k].gen = generations'
             /\ stale => lastFallbackUpdate' = now
             /\ ~stale => /\ fallbackDataCache' = fallbackDataCache
                          /\ generations' = generations
                          /\ lastFallbackUpdate' = lastFallbackUpdate]_vars
\* the second call, made exactly 2000 ms after the first, observed the
\* generation of the first
C13_Witness ==
    /\ call.op = "getFallbackData" /\ ~call.forceRefresh
    /\ ncalls = 2 /\ generations = 1
    /\ lastFallbackUpdate = 1000 /\ now = 3000
    /\ result.value.map = fallbackDataCache
    /\ fallbackDataCache["AAPL"].gen = 1

\* C14: when the upstream call of fetchPrice(symbol) fails (non-success status,
\* exception, timeout), the result is the fallback quote keyed by the upper-cased
\* symbol, whose symbol field is that key and whose source is "fallback"; it is
\* null exactly when the upper-cased symbol is none of the fallback symbols.
C14_FetchPriceFallbackByUpperCase ==
    (/\ call.op = "fetchPrice" /\ call.pc = "done"
     /\ call.failure \in {"status", "network", "timeout", "unparseable"}) =>
        LET key == ToUpperCase(call.symbol) IN
          /\ result.kind = "resolved"
          /\ (result.value.tag = "null") <=>
                (key \notin {"AAPL", "MSFT", "GOOGL", "AMZN", "TSLA"})
          /\ result.value.tag # "null" =>
                /\ result.value.tag = "quote"
                /\ DOMAIN result.value.map = {key}
                /\ result.value.map[key] = fallbackDataCache[key]
                /\ result.value.map[key].symbol = key
                /\ result.value.map[key].source = "fallback"
C14_Witness ==
    /\ call.op = "fetchPrice" /\ call.pc = "done"
    /\ call.symbol = "Tsla" /\ call.failure = "timeout"
    /\ result.value.tag = "quote"
    /\ result.value.map["TSLA"].symbol = "TSLA"
    /\ result.value.map["TSLA"].source = "fallback"

\* C15: fetchAllPrices and fetchStats never resolve to null or undefined,
\* whatever the upstream answers (also a 2xx body without the prices or the
\* cache_stats field); only fetchPrice may resolve to null.
C15_NeverNullOrUndefined ==
    (call.pc = "done" /\ call.op \in {"fetchAllPrices", "fetchStats"}) =>
        /\ result.kind = "resolved"
        /\ result.value.tag \notin {"null", "undefined"}

\* C16: on a successful bulk fetch every quote of the mapping fetchAllPrices
\* returns carries the same latency_us, the one the endpoint reported for the
\* whole batch.
C16_BatchLatencyOnEveryQuote ==
    (/\ call.op = "fetchAllPrices" /\ call.pc = "done" /\ call.failure = "none") =>
        /\ result.kind = "resolved" /\ result.value.tag = "map"
        /\ DOMAIN result.value.map = DOMAIN call.body.entries
        /\ \A k \in DOMAIN result.value.map :
              result.value.map[k].latency_us = call.body.latency
C16_Witness ==
    /\ call.op = "fetchAllPrices" /\ call.pc = "done" /\ call.failure = "none"
    /\ call.body.latency = 9
    /\ DOMAIN result.value.map = {"AAPL", "MSFT", "NVDA"}
    /\ \A k \in {"AAPL", "MSFT", "NVDA"} : result.value.map[k].latency_us = 9

\* fetchStats took a failure path and returned the object it synthesizes
ReturnedSynthetic ==
    /\ call.op = "fetchStats" /\ call.pc = "done"
    /\ result.kind = "resolved" /\ result.value.tag = "stats"
    /\ result.value.stats.source = "synthetic"

\* C17: the synthetic statistics of a failure path of fetchStats have
\* hit_rate_percent in [99.5, 100) and cache_hits and cache_misses both greater
\* than zero.
C17_SyntheticStatsRanges ==
    ReturnedSynthetic =>
        /\ result.value.stats.hit_rate_milli >= 99500
        /\ result.value.stats.hit_rate_milli < 100000
        /\ result.value.stats.cache_hits > 0
        /\ result.value.stats.cache_misses > 0

\* C18: the synthetic statistics of a failure path of fetchStats satisfy
\* total_requests = cache_hits + cache_misses.
C18_SyntheticTotalIsSum ==
    ReturnedSynthetic =>
        result.value.stats.total_requests =
            result.value.stats.cache_hits + result.value.stats.cache_misses

(***************************************************************************)
(* Polling hooks: properties                                               *)
(***************************************************************************)
\* a step in which the data of request r is written to the state
Writes(r) == price'.req = r /\ price.req # r
\* request r is stale when it is written: its timeout aborted it, or it was
\* issued by a polling loop that was torn down since
StaleAtWrite(r) == requests'[r].pc = "timeout" \/ requests[r].epoch < epoch

\* C11: a stale request (one that has timed out, or that was issued before its
\* polling loop was torn down or re-targeted) never writes its result over state
\* written by a request that was started later.
C11_StaleNeverOverwrites ==
    [][\A r \in 1..Len(requests) :
          (Writes(r) /\ StaleAtWrite(r)) => price.req < r]_vars

\* a step in which the awaited call of request r resolves
Arrives(r) == requests[r].pc = "fetching" /\ requests'[r].pc # "fetching"

\* C12: within one polling loop of usePrices the state is last-write-wins by
\* arrival order: every response that arrives is written, so the state holds the
\* payload of the response that arrived most recently, whichever tick started
\* first.
C12_LastArrivalWins ==
    /\ []((hook = "usePrices" /\ pollPc = "mounted") => price.req = arrived)
    /\ [][(hook = "usePrices" /\ pollPc = "mounted") =>
             \A r \in 1..Len(requests) :
                Arrives(r) =>
                   price' = [req |-> r,
                             value |-> Fetched("fetchAllPrices", "", requests'[r].pc,
                                               fallbackDataCache')]]_vars
C12_Witness ==
    /\ hook = "usePrices" /\ pollPc = "mounted"
    /\ Len(requests) = 3
    /\ requests[1].pc = "live" /\ requests[2].pc = "failed" /\ requests[3].pc = "fetching"
    /\ arrived = 1
    /\ price.req = 1 /\ price.value.tag = "map" /\ AllFrom(price.value, "live")

(***************************************************************************)
(* calculateStats: properties                                              *)
(***************************************************************************)
SummaryFields == {"min", "max", "mean", "median", "p95", "p99"}

\* C21: calculateStats called with an empty sequence fails (with an
\* InvalidArgument error); it never returns a summary with a NaN or undefined
\* field.
C21_EmptyInputFails ==
    /\ (latencies = <<>> /\ summary.kind # "none") => summary.kind = "thrown"
    /\ summary.kind = "returned" =>
          \A f \in SummaryFields : summary.value[f] \notin {NaN, Undefined}

\* v is the element at 0-based index k of a sorted in ascending order
IsKthSmallest(a, k, v) ==
    /\ Cardinality({i \in DOMAIN a : a[i] < v}) <= k
    /\ k < Cardinality({i \in DOMAIN a : a[i] <= v})

IsRatio(speedup, uncached, cached) ==
    speedup.num * uncached.den * cached.num = speedup.den * uncached.num * cached.den

\* C24: the speedup factor of a benchmark result, and the speedup_factor
\* exported for it, is the uncached mean latency divided by the cached mean
\* latency, both in the same unit.
C24_SpeedupIsRatioOfMeans ==
    /\ \A i \in 1..Len(results) :
          results[i].measured =>
             IsRatio(results[i].speedup, results[i].uncachedMean, results[i].cachedMean)
    /\ \A i \in 1..Len(exportData) :
          exportData[i].measured =>
             IsRatio(exportData[i].speedup_factor, exportData[i].uncached_latency_us,
                     exportData[i].cached_latency_us)

(***************************************************************************)
(* generateFallbackPriceData: properties                                   *)
(***************************************************************************)
\* C25: every quote the fallback synthesizer generates has
\* bid <= price <= ask after rounding to 2 decimals, and latency_us >= 0.
C25_BidPriceAskOrdered ==
    synthQuote # NoQuote =>
       /\ synthQuote.bid <= synthQuote.price
       /\ synthQuote.price <= synthQuote.ask
       /\ synthQuote.latency_us >= 0

\* a generated quote whose three prices differ
C25_Witness ==
    /\ synthQuote # NoQuote
    /\ synthQuote.bid < synthQuote.price
    /\ synthQuote.price < synthQuote.ask

\* C26: every fallback quote's price lies within 1% of the base price of its
\* symbol, for each of the five symbols; a fallback quote of AAPL has source
\* "fallback" and a price between 179.5 and 183.5.
C26_PriceWithinOnePercent ==
    synthQuote # NoQuote =>
       /\ synthQuote.symbol \in FallbackSymbols
       /\ 100 * synthQuote.price >= 99 * (basePrice[synthQuote.symbol] \div 10000)
       /\ 100 * synthQuote.price <= 101 * (basePrice[synthQuote.symbol] \div 10000)
       /\ synthQuote.symbol = "AAPL" =>
             /\ synthQuote.source = "fallback"
             /\ synthQuote.price >= 17950
             /\ synthQuote.price <= 18350

\* a quote of AAPL generated from the lowest draw: the price is base - 1
C26_Witness ==
    /\ synthQuote # NoQuote
    /\ synthQuote.symbol = "AAPL"
    /\ random.volatility = 0
    /\ synthQuote.price = 18050

(***************************************************************************)
(* Export functions: properties                                            *)
(***************************************************************************)
\* the number of fields of each row of a CSV text: a comma separates fields
\* and a line break separates rows, except between double quotes
Quoted(csv, i) == Cardinality({j \in 1..(i - 1) : csv[j] = DoubleQuote}) % 2 = 1

Unquoted(csv, token) == {i \in 1..Len(csv) : csv[i] = token /\ ~Quoted(csv, i)}

ColumnsOfRows(csv) ==
    LET breaks == Unquoted(csv, LineBreak)
        separators == Unquoted(csv, Comma)
        RowOf(i) == 1 + Cardinality({k \in breaks : k < i}) IN
      [r \in 1..(1 + Cardinality(breaks)) |->
          1 + Cardinality({k \in separators : RowOf(k) = r})]

\* a header row and one row per record, each of the given number of columns
IsTable(csv, records, columns) ==
    LET counts == ColumnsOfRows(csv) IN
      /\ Len(counts) = 1 + records
      /\ \A i \in 1..Len(counts) : counts[i] = columns

\* C27: for every non-empty input, the CSV of metricsToCSV and of
\* benchmarkToCSV is one header row followed by one row per record, and every
\* row has as many columns as the header: 10 for metrics, 8 for benchmark results.
C27_CsvIsTable ==
    /\ exported.fn = "metricsToCSV" /\ Len(metrics) > 0
          => IsTable(exported.csv, Len(metrics), Len(MetricsHeaders))
                /\ Len(MetricsHeaders) = 10
    /\ exported.fn = "benchmarkToCSV" /\ Len(benchResults) > 0
          => IsTable(exported.csv, Len(benchResults), Len(BenchmarkHeaders))
                /\ Len(BenchmarkHeaders) = 8

\* the CSV of two snapshots
C27_Witness ==
    /\ exported.fn = "metricsToCSV"
    /\ Len(metrics) = 2
    /\ ColumnsOfRows(exported.csv) = <<10, 10, 10>>

\* the sum of a field over the snapshots lo..hi of the argument
RECURSIVE SumOver(_, _, _)
SumOver(field, lo, hi) ==
    IF lo > hi THEN 0 ELSE metrics[lo][field] + SumOver(field, lo + 1, hi)

\* the written number is the mean of the field over the argument, 0 if empty
IsMean(written, field) ==
    /\ written.den # 0
    /\ IF Len(metrics) = 0 THEN written.num = 0
       ELSE written.num * Len(metrics) = SumOver(field, 1, Len(metrics)) * written.den

\* C28: the JSON export of the metrics history reports a count equal to the
\* number of snapshots handed to it, contains all of them in their order, its
\* totals are the sums and its averages the arithmetic means over exactly those
\* snapshots, the averages being 0 for no snapshot.
C28_JsonSummarizesBuffer ==
    exported.fn = "metricsToJSON" =>
       /\ exported.json.data_point_count = Len(metrics)
       /\ exported.json.metrics = metrics
       /\ exported.json.summary.total_cache_hits = SumOver("cache_hits", 1, Len(metrics))
       /\ exported.json.summary.total_cache_misses = SumOver("cache_misses", 1, Len(metrics))
       /\ exported.json.summary.total_stale_hits = SumOver("stale_hits", 1, Len(metrics))
       /\ exported.json.summary.total_refresh_errors
             = SumOver("refresh_errors", 1, Len(metrics))
       /\ IsMean(exported.json.summary.avg_hit_rate, "hit_rate_percent")
       /\ IsMean(exported.json.summary.avg_latency, "avg_latency_us")

\* the JSON of two different snapshots
C28_Witness ==
    /\ exported.fn = "metricsToJSON"
    /\ Len(metrics) = 2
    /\ metrics[1] # metrics[2]
    /\ exported.json.summary.total_cache_hits = 17

(***************************************************************************)
(* Stream client: disconnect and exhaustion                                *)
(***************************************************************************)
\* timer i fires: its callback increments the counter and calls connect()
Fires(i) ==
    /\ timers' = RemoveAt(timers, i)
    /\ reconnectAttempts' = reconnectAttempts + 1

\* C29: disconnect() cancels the pending reconnect timer synchronously: a
\* reconnect timer pending when disconnect() is called never fires its connect().
C29_PendingTimerNeverFires ==
    [][\A i \in 1..Len(timers) : Fires(i) => timers[i].id \notin survivors]_vars

\* the upstream is unreachable and the caller has not disconnected
Unreachable == urlOk /\ ~everOpened /\ callerActs = 0

\* the terminal state: the initial attempt and maxReconnectAttempts reconnects
\* were made, no timer is pending and no channel is being opened
Terminal ==
    /\ exhausted
    /\ Len(chan) = 1 + maxReconnectAttempts
    /\ reconnectAttempts = maxReconnectAttempts
    /\ timers = <<>>
    /\ \A c \in 1..Len(chan) : chan[c] = "closed"

\* C30: if the upstream stays unreachable and the caller never disconnects, the
\* stream client eventually stops in the terminal state, after the initial
\* attempt and maxReconnectAttempts automatic reconnects; and whenever a
\* channel closes with the attempt counter below the maximum, a reconnect is
\* scheduled.
C30_EventuallyStops ==
    /\ ([]Unreachable) => <>Terminal
    /\ [][\A c \in 1..Len(chan) :
             (Closes(c) /\ reconnectAttempts < maxReconnectAttempts)
                => /\ SetsTimer
                   /\ Len(timers') = Len(timers) + 1
                   /\ reconnectTimeoutRef' = timers'[Len(timers')].id]_vars

\* the terminal state reached against an unreachable upstream
C30_Witness == Unreachable /\ Terminal

(***************************************************************************)
(* Stream client: channels, timers and the attempt counter                 *)
(***************************************************************************)
\* the channels that are connecting or open
Live == {c \in 1..Len(chan) : chan[c] \in {"connecting", "open"}}

\* C37: at every moment the stream client has at most one channel that is
\* connecting or open and at most one pending reconnect timer, whatever the
\* interleaving of connect, disconnect, effect re-runs, timer firings and
\* channel events.
C37_OneChannelOneTimer ==
    /\ Cardinality(Live) <= 1
    /\ Len(timers) <= 1

\* C38: the reconnect-attempt counter always stays within
\* 0..maxReconnectAttempts.
C38_CounterInRange == reconnectAttempts \in 0..maxReconnectAttempts

\* a step in which channel c fails: a channel that is not established closes
\* only after an error event
Fails(c) == chan[c] \in {"connecting", "aborting"} /\ chan'[c] = "closed"

\* C32: a transport error on the channel is absorbed by the stream client: it
\* only records a lastError string, and invokes neither the caller's onError
\* nor onMessage.
C32_ErrorAbsorbed ==
    /\ [](\A k \in 1..Len(calls) : calls[k] # "onError")
    /\ [][\A c \in 1..Len(chan) :
             Fails(c) => /\ \A k \in 1..Len(calls') : calls'[k] \notin {"onError", "onMessage"}
                         /\ lastError' \in {ErrConnection, ErrMaxAttempts}]_vars

\* a failed channel: the error is recorded and only onClose was invoked
C32_Witness ==
    /\ lastError = ErrConnection
    /\ calls = <<"onClose">>
    /\ \E c \in 1..Len(chan) : chan[c] = "closed"

(***************************************************************************)
(* Observability: what changes the metrics history                         *)
(***************************************************************************)
\* C33: the metrics history changes only on arrival of a message of type
\* "stats", which appends exactly one snapshot; messages of another or of no
\* type, and channel open, close, error and reconnect events, leave it
\* unchanged, so that the history survives reconnections.
C33_OnlyStatsAppends ==
    [][/\ metricsHistory' # metricsHistory => delivered' = "stats"
       /\ delivered' = "stats" =>
             /\ Len(metricsHistory') = Len(SliceLast(metricsHistory, HistoryKeep)) + 1
             /\ SubSeq(metricsHistory', 1, Len(metricsHistory') - 1)
                   = SliceLast(metricsHistory, HistoryKeep)
       /\ delivered' \in {"other", "null", "none"} => metricsHistory' = metricsHistory]_vars

\* a history of two snapshots that has survived a reconnection: the channel
\* now in use is not the first one
C33_Witness ==
    /\ Len(metricsHistory) = 2
    /\ wsRef > 1
    /\ delivered = "other"

(***************************************************************************)
(* Fallback cache: who writes it                                           *)
(***************************************************************************)
\* a step that ends a call with the answer of the live upstream
LiveSuccess ==
    /\ call.pc = "body" /\ call'.pc = "done"
    /\ call'.failure = "none"

\* C34: the fallback cache and the time of its last generation are modified
\* only inside getFallbackData: a fetchPrice, fetchAllPrices or fetchStats call
\* that succeeds against the live upstream leaves both unchanged; a
\* regeneration replaces the mapping as a whole, all five symbols of one
\* generation, and does not alter the mappings returned by earlier calls.
C34_CacheWrittenByGetFallbackData ==
    /\ [](\A h \in held : objects[h.obj] = h.map)
    /\ [][/\ (fallbackDataCache' # fallbackDataCache
                 \/ lastFallbackUpdate' # lastFallbackUpdate)
             => /\ call'.pc = "done" /\ call.pc \in {"fetching", "body"}
                /\ call'.op \in {"fetchPrice", "fetchAllPrices"}
                /\ call'.failure # "none"
                /\ generations' = generations + 1
                /\ lastFallbackUpdate' = now
                /\ DOMAIN fallbackDataCache' = {"AAPL", "MSFT", "GOOGL", "AMZN", "TSLA"}
                /\ \A k \in DOMAIN fallbackDataCache' :
                      fallbackDataCache'[k].gen = generations'
          /\ LiveSuccess => UNCHANGED <<fallbackDataCache, lastFallbackUpdate, generations>>
         ]_vars

\* after a second generation, the mapping of the first one is still as it was
\* returned
C34_Witness ==
    /\ generations = 2
    /\ \E h \in held : h.map["AAPL"].gen = 1 /\ objects[h.obj] = h.map

(***************************************************************************)
(* Export: the same history exported twice                                 *)
(***************************************************************************)
\* C36: export serialization is deterministic: exporting the same history
\* twice with metricsToCSV, and twice with metricsToJSON, yields identical
\* output each time, and exporting never modifies the history.
C36_ExportDeterministic ==
    /\ [](\A i, j \in 1..Len(outputs) :
            outputs[i].format = outputs[j].format => outputs[i] = outputs[j])
    /\ [][Len(outputs') > Len(outputs) => metrics' = metrics]_vars

(***************************************************************************)
(* Home: the fallback/live indicator                                       *)
(***************************************************************************)
\* C31: whenever the statistics shown were produced by the fallback path of
\* fetchStats the indicator reads fallback (isRealApi is FALSE), and it reads
\* live only when the statistics came from the upstream service.
C31_IndicatorReflectsProvenance ==
    /\ homeStats.source = "synthetic" => ~isRealApi
    /\ isRealApi => homeStats.source = "live"

(***************************************************************************)
(* CircuitBreakerStatus: the state shown                                   *)
(***************************************************************************)
\* C35: the breaker state shown is always a state that a status payload of
\* the upstream reported, never one the client made up, and a reset request
\* that fails leaves the status shown unchanged.
C35_ShownStateWasReported ==
    /\ [](cbMetrics # NoMetrics => cbMetrics.state \in reported)
    /\ [][cbReset = "pending" /\ cbReset' = "idle" => cbMetrics' = cbMetrics]_vars

(***************************************************************************)
(* Polling hooks: the loop of a run of the effect ends with its cleanup    *)
(***************************************************************************)
\* fetchData is called: a request is added
Issues == Len(requests') > Len(requests)

\* C39: after a polling hook is torn down or its interval/symbol dependency
\* changes, the old polling loop issues no further fetch: every fetch is issued
\* by the loop of the latest run of the effect of a mounted hook, for its
\* symbol; the timer of a loop is cleared by its cleanup, so a mounted hook
\* has exactly one interval timer and an unmounted one has none.
C39_OldLoopIssuesNoFetch ==
    /\ [][Issues =>
            /\ pollPc' = "mounted"
            /\ requests'[Len(requests')].epoch = epoch'
            /\ requests'[Len(requests')].symbol = pollSymbol']_vars
    /\ [](pollPc = "mounted" =>
            /\ Cardinality(intervals) = 1
            /\ \A t \in intervals : t.epoch = epoch /\ t.symbol = pollSymbol)
    /\ [](pollPc # "mounted" => intervals = {})

\* the symbol changed, the interval of the first loop has passed, and the
\* second loop has fetched on its own timer
C39_Witness ==
    /\ epoch = 2
    /\ now >= 2 * pollInterval
    /\ \E r \in 1..Len(requests) : requests[r].epoch = 2 /\ requests[r].start >= pollInterval

====
